---- MODULE Spec2Model ----
(***************************************************************************)
(* A model of the question-answering router, the arithmetic heuristic and  *)
(* the pseudo-log-likelihood scorer of modele_jezykowe/pracownia_1         *)
(* (d.py, with the older variant c.py).                                    *)
(*                                                                         *)
(* Text is a sequence of one-character strings.  The module's character    *)
(* set is ASCII; a Polish letter is written as its base letter followed    *)
(* by "_" ("l_" is l-stroke, "a_" is a-ogonek, "L_" the capital; "z_" is  *)
(* z-dot and "x_" is z-acute), which is still ONE character of the text.   *)
(*                                                                         *)
(* A Python float is modelled by the exact rational it approximates        *)
(* (p/q in lowest terms, q > 0); numbers whose numerator or denominator    *)
(* exceeds MaxAbs are outside the model ("unmodelled") and the             *)
(* specifications do not draw inputs that reach them.                      *)
(***************************************************************************)
EXTENDS Integers, Sequences, FiniteSets, TLC

(***************************************************************************)
(* Characters                                                              *)
(***************************************************************************)
DigitChars == {"0", "1", "2", "3", "4", "5", "6", "7", "8", "9"}

IsDigit(c) == c \in DigitChars

DigitVal(c) ==
  CASE c = "0" -> 0 [] c = "1" -> 1 [] c = "2" -> 2 [] c = "3" -> 3
    [] c = "4" -> 4 [] c = "5" -> 5 [] c = "6" -> 6 [] c = "7" -> 7
    [] c = "8" -> 8 [] c = "9" -> 9

DigitChar(d) == <<"0", "1", "2", "3", "4", "5", "6", "7", "8", "9">>[d + 1]

\* Python's \s and str.strip() whitespace, as far as the inputs use it.
IsSpace(c) == c \in {" ", "\t", "\r", "\n"}

UpperChars ==
  <<"A", "B", "C", "D", "E", "F", "G", "H", "I", "J", "K", "L", "M", "N",
    "O", "P", "Q", "R", "S", "T", "U", "V", "W", "X", "Y", "Z",
    "A_", "C_", "E_", "L_", "N_", "O_", "S_", "Z_", "X_">>

LowerChars ==
  <<"a", "b", "c", "d", "e", "f", "g", "h", "i", "j", "k", "l", "m", "n",
    "o", "p", "q", "r", "s", "t", "u", "v", "w", "x", "y", "z",
    "a_", "c_", "e_", "l_", "n_", "o_", "s_", "z_", "x_">>

\* str.lower() on one character.
LowerChar(c) ==
  IF \E i \in 1..Len(UpperChars) : UpperChars[i] = c
  THEN LowerChars[CHOOSE i \in 1..Len(UpperChars) : UpperChars[i] = c]
  ELSE c

\* str.upper() on one character.
UpperChar(c) ==
  IF \E i \in 1..Len(LowerChars) : LowerChars[i] = c
  THEN UpperChars[CHOOSE i \in 1..Len(LowerChars) : LowerChars[i] = c]
  ELSE c

IsLowerChar(c) == \E i \in 1..Len(LowerChars) : LowerChars[i] = c

\* The characters in code-point order (what sorted() compares by).
CodePointOrder ==
  <<"\t", " ", "%", "(", ")", "*", "+", ",", "-", ".", "/",
    "0", "1", "2", "3", "4", "5", "6", "7", "8", "9", ":", "?",
    "A", "B", "C", "D", "E", "F", "G", "H", "I", "J", "K", "L", "M", "N",
    "O", "P", "Q", "R", "S", "T", "U", "V", "W", "X", "Y", "Z", "[", "]",
    "a", "b", "c", "d", "e", "f", "g", "h", "i", "j", "k", "l", "m", "n",
    "o", "p", "q", "r", "s", "t", "u", "v", "w", "x", "y", "z",
    "O_", "o_", "A_", "a_", "C_", "c_", "E_", "e_", "L_", "l_",
    "N_", "n_", "S_", "s_", "X_", "x_", "Z_", "z_">>

Ord(c) == CHOOSE i \in 1..Len(CodePointOrder) : CodePointOrder[i] = c

(***************************************************************************)
(* Strings                                                                 *)
(***************************************************************************)
LowerStr(s) == [i \in 1..Len(s) |-> LowerChar(s[i])]

StartsWith(s, p) == Len(s) >= Len(p) /\ SubSeq(s, 1, Len(p)) = p

DropFirst(s, n) == SubSeq(s, n + 1, Len(s))

RECURSIVE LStrip(_)
LStrip(s) == IF s # <<>> /\ IsSpace(s[1]) THEN LStrip(Tail(s)) ELSE s

RECURSIVE RStrip(_)
RStrip(s) ==
  IF s # <<>> /\ IsSpace(s[Len(s)]) THEN RStrip(SubSeq(s, 1, Len(s) - 1)) ELSE s

\* str.strip()
Strip(s) == RStrip(LStrip(s))

\* re.sub(r"\s+", " ", s): every run of whitespace becomes one space.
RECURSIVE CollapseSpaces(_)
CollapseSpaces(s) ==
  IF s = <<>> THEN <<>>
  ELSE IF IsSpace(s[1])
       THEN <<" ">> \o CollapseSpaces(LStrip(s))
       ELSE <<s[1]>> \o CollapseSpaces(Tail(s))

normalize_whitespace(s) == Strip(CollapseSpaces(s))

\* re.sub(r"\s+", "", s)
RECURSIVE RemoveSpaces(_)
RemoveSpaces(s) ==
  IF s = <<>> THEN <<>>
  ELSE IF IsSpace(s[1]) THEN RemoveSpaces(Tail(s))
       ELSE <<s[1]>> \o RemoveSpaces(Tail(s))

\* str.replace(a, b) for one-character a and b.
ReplaceChar(s, a, b) == [i \in 1..Len(s) |-> IF s[i] = a THEN b ELSE s[i]]

\* Python's < on str: lexicographic by code point, a proper prefix first.
RECURSIVE StrLess(_, _)
StrLess(a, b) ==
  IF b = <<>> THEN FALSE
  ELSE IF a = <<>> THEN TRUE
  ELSE IF a[1] = b[1] THEN StrLess(Tail(a), Tail(b))
  ELSE Ord(a[1]) < Ord(b[1])

(***************************************************************************)
(* Numbers: the values eval() can produce from the whitelisted characters  *)
(***************************************************************************)
\* Largest numerator or denominator the model computes with.
MaxAbs == 30000

VInt(n) == [k |-> "int", p |-> n, q |-> 1]
VTuple == [k |-> "tuple", p |-> 0, q |-> 1]
VEllipsis == [k |-> "ellipsis", p |-> 0, q |-> 1]
VUnmodelled == [k |-> "unmodelled", p |-> 0, q |-> 1]

Abs(n) == IF n < 0 THEN -n ELSE n

RECURSIVE Gcd(_, _)
Gcd(a, b) == IF b = 0 THEN a ELSE Gcd(b, a % b)

\* floor(a / b) for b > 0
FloorDiv(a, b) == IF a >= 0 THEN a \div b ELSE -(((-a) + b - 1) \div b)

\* The float p/q (q # 0), in lowest terms with a positive denominator.
VFloat(p, q) ==
  LET g == Gcd(Abs(p), Abs(q))
      sp == IF q < 0 THEN -p ELSE p
  IN IF Abs(p) > MaxAbs * MaxAbs \/ Abs(q) > MaxAbs * MaxAbs THEN VUnmodelled
     ELSE IF Abs(p) \div g > MaxAbs \/ Abs(q) \div g > MaxAbs THEN VUnmodelled
     ELSE [k |-> "float", p |-> sp \div g, q |-> Abs(q) \div g]

VIntChecked(n) == IF Abs(n) > MaxAbs THEN VUnmodelled ELSE VInt(n)

IsNum(v) == v.k \in {"int", "float"}
BothInt(a, b) == a.k = "int" /\ b.k = "int"

\* The outcome of an evaluation step: a value, or a raised exception.
Raised == [ok |-> FALSE, v |-> VInt(0)]
Val(v) == [ok |-> TRUE, v |-> v]

PyAdd(a, b) ==
  IF a.k = "unmodelled" \/ b.k = "unmodelled" THEN Val(VUnmodelled)
  ELSE IF a.k = "tuple" /\ b.k = "tuple" THEN Val(VTuple)
  ELSE IF ~(IsNum(a) /\ IsNum(b)) THEN Raised
  ELSE IF BothInt(a, b) THEN Val(VIntChecked(a.p + b.p))
  ELSE Val(VFloat(a.p * b.q + b.p * a.q, a.q * b.q))

PySub(a, b) ==
  IF a.k = "unmodelled" \/ b.k = "unmodelled" THEN Val(VUnmodelled)
  ELSE IF ~(IsNum(a) /\ IsNum(b)) THEN Raised
  ELSE IF BothInt(a, b) THEN Val(VIntChecked(a.p - b.p))
  ELSE Val(VFloat(a.p * b.q - b.p * a.q, a.q * b.q))

PyMul(a, b) ==
  IF a.k = "unmodelled" \/ b.k = "unmodelled" THEN Val(VUnmodelled)
  ELSE IF (a.k = "tuple" /\ b.k = "int") \/ (a.k = "int" /\ b.k = "tuple")
       THEN Val(VTuple)
  ELSE IF ~(IsNum(a) /\ IsNum(b)) THEN Raised
  ELSE IF BothInt(a, b) THEN Val(VIntChecked(a.p * b.p))
  ELSE Val(VFloat(a.p * b.p, a.q * b.q))

\* "/" is true division: the result is a float even for two ints.
PyTrueDiv(a, b) ==
  IF a.k = "unmodelled" \/ b.k = "unmodelled" THEN Val(VUnmodelled)
  ELSE IF ~(IsNum(a) /\ IsNum(b)) THEN Raised
  ELSE IF b.p = 0 THEN Raised
  ELSE Val(VFloat(a.p * b.q, a.q * b.p))

\* floor(a / b) as an integer, b # 0
FloorQuot(a, b) ==
  LET n == a.p * b.q
      d == a.q * b.p
  IN IF d > 0 THEN FloorDiv(n, d) ELSE FloorDiv(-n, -d)

\* On floats "//" and "%" depend on the rounding error of the operands
\* (5 % 0.1 is 0.0999...), which the exact rationals do not carry: only
\* the int case is modelled.
PyFloorDiv(a, b) ==
  IF a.k = "unmodelled" \/ b.k = "unmodelled" THEN Val(VUnmodelled)
  ELSE IF ~(IsNum(a) /\ IsNum(b)) THEN Raised
  ELSE IF b.p = 0 THEN Raised
  ELSE IF BothInt(a, b) THEN Val(VInt(FloorQuot(a, b)))
  ELSE Val(VUnmodelled)

\* a % b = a - floor(a / b) * b: the result has the sign of the divisor.
PyMod(a, b) ==
  IF a.k = "unmodelled" \/ b.k = "unmodelled" THEN Val(VUnmodelled)
  ELSE IF ~(IsNum(a) /\ IsNum(b)) THEN Raised
  ELSE IF b.p = 0 THEN Raised
  ELSE IF BothInt(a, b) THEN Val(VInt(a.p - FloorQuot(a, b) * b.p))
  ELSE Val(VUnmodelled)

PyNeg(a) ==
  IF a.k = "unmodelled" THEN Val(VUnmodelled)
  ELSE IF ~IsNum(a) THEN Raised
  ELSE Val([a EXCEPT !.p = -a.p])

PyPos(a) ==
  IF a.k = "unmodelled" THEN Val(VUnmodelled)
  ELSE IF ~IsNum(a) THEN Raised
  ELSE Val(a)

\* b ** n for n >= 0 by repeated multiplication; -1 stands for "beyond MaxAbs".
RECURSIVE IntPow(_, _)
IntPow(b, n) ==
  IF n = 0 THEN 1
  ELSE LET r == IntPow(b, n - 1)
       IN IF r = -1 \/ r > MaxAbs THEN -1 ELSE r * b

\* a ** b.  A float exponent that is not a whole number gives an irrational
\* (or complex) result, which the model does not represent.
PyPow(a, b) ==
  IF a.k = "unmodelled" \/ b.k = "unmodelled" THEN Val(VUnmodelled)
  ELSE IF ~(IsNum(a) /\ IsNum(b)) THEN Raised
  ELSE IF b.q # 1 THEN Val(VUnmodelled)
  ELSE IF b.p < 0 /\ a.p = 0 THEN Raised
  ELSE IF Abs(b.p) > 15 /\ Abs(a.p) # a.q /\ a.p # 0 THEN Val(VUnmodelled)
  ELSE LET \* a base of 0, 1 or -1 only needs the exponent's parity
           n == IF Abs(b.p) > 15 THEN 2 + (Abs(b.p) % 2) ELSE Abs(b.p)
           pn == IntPow(Abs(a.p), n)
           qn == IntPow(a.q, n)
           sg == IF a.p < 0 /\ n % 2 = 1 THEN -1 ELSE 1
       IN IF pn = -1 \/ qn = -1 \/ pn > MaxAbs \/ qn > MaxAbs THEN Val(VUnmodelled)
          ELSE IF BothInt(a, b) /\ b.p >= 0 THEN Val(VInt(sg * pn))
          ELSE IF b.p >= 0 THEN Val(VFloat(sg * pn, qn))
          ELSE Val(VFloat(sg * qn, pn))

(***************************************************************************)
(* Python's tokenizer and expression grammar, restricted to the            *)
(* characters SAFE_EXPR_RE lets through (whitespace is removed before).    *)
(***************************************************************************)
\* First index after the run of digits that starts at i.
RECURSIVE DigitRunEnd(_, _)
DigitRunEnd(s, i) ==
  IF i <= Len(s) /\ IsDigit(s[i]) THEN DigitRunEnd(s, i + 1) ELSE i

\* The number written by the digits s[i..j-1] (0 for none).
RECURSIVE DigitsValue(_, _, _)
DigitsValue(s, i, j) ==
  IF j <= i THEN 0 ELSE DigitsValue(s, i, j - 1) * 10 + DigitVal(s[j - 1])

RECURSIVE Pow10(_)
Pow10(n) == IF n = 0 THEN 1 ELSE 10 * Pow10(n - 1)

AllZeros(s, i, j) == \A x \in i..(j - 1) : s[x] = "0"

\* The float literal with integer digits s[i..j-1] and fraction digits
\* s[j+1..k-1] (float() reads the same notation).
DecimalValue(s, i, j, k) ==
  IF (j - i) > 4 \/ (k - j - 1) > 4 THEN VUnmodelled
  ELSE VFloat(DigitsValue(s, i, j) * Pow10(k - j - 1) + DigitsValue(s, j + 1, k),
              Pow10(k - j - 1))

Tok(t, s, v) == [t |-> t, s |-> s, v |-> v]
TokOp(s) == Tok("op", s, VInt(0))
TokNum(v) == Tok("num", "", v)

\* The token sequence of s from index i on; <<Tok("error", ...)>> is put in
\* place of what the tokenizer or the parser cannot accept.
RECURSIVE Tokenize(_, _)
Tokenize(s, i) ==
  IF i > Len(s) THEN <<>>
  ELSE LET c == s[i]
           nxt == IF i < Len(s) THEN s[i + 1] ELSE ""
       IN IF IsDigit(c) \/ (c = "." /\ IsDigit(nxt))
          THEN LET j == DigitRunEnd(s, i)
               IN IF j <= Len(s) /\ s[j] = "."
                  THEN \* pointfloat: "2.5", "2.", ".5"
                       LET k == DigitRunEnd(s, j + 1)
                       IN <<TokNum(DecimalValue(s, i, j, k))>> \o Tokenize(s, k)
                  ELSE \* decinteger: no leading zeros unless all zeros
                       IF j - i > 1 /\ s[i] = "0" /\ ~AllZeros(s, i, j)
                       THEN <<Tok("error", "", VInt(0))>>
                       ELSE IF j - i > 5
                            THEN <<TokNum(VUnmodelled)>> \o Tokenize(s, j)
                            ELSE <<TokNum(VIntChecked(DigitsValue(s, i, j)))>>
                                 \o Tokenize(s, j)
          ELSE IF c = "."
          THEN IF i + 2 <= Len(s) /\ s[i + 1] = "." /\ s[i + 2] = "."
               THEN <<TokOp("...")>> \o Tokenize(s, i + 3)
               ELSE <<Tok("error", "", VInt(0))>>   \* "." needs a name after it
          ELSE IF c = "*" /\ nxt = "*" THEN <<TokOp("**")>> \o Tokenize(s, i + 2)
          ELSE IF c = "/" /\ nxt = "/" THEN <<TokOp("//")>> \o Tokenize(s, i + 2)
          ELSE IF c \in {"+", "-", "*", "/", "%", "(", ")"}
               THEN <<TokOp(c)>> \o Tokenize(s, i + 1)
          ELSE <<Tok("error", "", VInt(0))>>

\* A parse result: the value, or a raised exception (SyntaxError, TypeError,
\* ZeroDivisionError), and the index of the next token.
PErr == [ok |-> FALSE, v |-> VInt(0), pos |-> 0]
POk(v, pos) == [ok |-> TRUE, v |-> v, pos |-> pos]
PFrom(r, pos) == IF r.ok THEN POk(r.v, pos) ELSE PErr

IsOp(toks, i, ops) == i <= Len(toks) /\ toks[i].t = "op" /\ toks[i].s \in ops

\* "(" sum ")": the sum e is the value when ")" follows it
Closed(toks, e) ==
  IF e.ok /\ IsOp(toks, e.pos, {")"}) THEN POk(e.v, e.pos + 1) ELSE PErr

\* A "(" right after an atom is a call of a number, a tuple or Ellipsis:
\* it raises (or is no syntax).
NotCalled(toks, r) == IF r.ok /\ IsOp(toks, r.pos, {"("}) THEN PErr ELSE r

\* a ** f, -f and +f for parsed operands
PowResult(a, f) == IF ~f.ok THEN PErr ELSE PFrom(PyPow(a.v, f.v), f.pos)
NegResult(f) == IF ~f.ok THEN PErr ELSE PFrom(PyNeg(f.v), f.pos)
PosResult(f) == IF ~f.ok THEN PErr ELSE PFrom(PyPos(f.v), f.pos)

\* acc op f for the operators of a term and of a sum
TermResult(op, acc, f) ==
  IF ~f.ok THEN PErr
  ELSE PFrom(CASE op = "*" -> PyMul(acc, f.v)
               [] op = "/" -> PyTrueDiv(acc, f.v)
               [] op = "//" -> PyFloorDiv(acc, f.v)
               [] op = "%" -> PyMod(acc, f.v),
             f.pos)

SumResult(op, acc, t) ==
  IF ~t.ok THEN PErr
  ELSE PFrom(IF op = "+" THEN PyAdd(acc, t.v) ELSE PySub(acc, t.v), t.pos)

RECURSIVE ParseSum(_, _), SumRest(_, _), ParseTerm(_, _), TermRest(_, _),
          ParseFactor(_, _), ParsePower(_, _), PowerRest(_, _), ParseAtom(_, _)

\* atom: NUMBER | "..." | "(" ")" | "(" sum ")"
ParseAtom(toks, i) ==
  NotCalled(toks,
            IF i > Len(toks) THEN PErr
            ELSE IF toks[i].t = "num" THEN POk(toks[i].v, i + 1)
            ELSE IF IsOp(toks, i, {"..."}) THEN POk(VEllipsis, i + 1)
            ELSE IF IsOp(toks, i, {"("})
                 THEN IF IsOp(toks, i + 1, {")"}) THEN POk(VTuple, i + 2)
                      ELSE Closed(toks, ParseSum(toks, i + 1))
            ELSE PErr)

\* power: atom ["**" factor]   (right associative, binds tighter than unary
\* minus on its left: -2**2 = -(2**2))
PowerRest(toks, a) ==
  IF ~a.ok THEN PErr
  ELSE IF IsOp(toks, a.pos, {"**"})
       THEN PowResult(a, ParseFactor(toks, a.pos + 1))
       ELSE a

ParsePower(toks, i) == PowerRest(toks, ParseAtom(toks, i))

\* factor: ("+" | "-") factor | power
ParseFactor(toks, i) ==
  IF IsOp(toks, i, {"-"}) THEN NegResult(ParseFactor(toks, i + 1))
  ELSE IF IsOp(toks, i, {"+"}) THEN PosResult(ParseFactor(toks, i + 1))
  ELSE ParsePower(toks, i)

\* term: factor (("*" | "/" | "//" | "%") factor)*   (left associative);
\* acc is the term parsed so far
TermRest(toks, acc) ==
  IF ~acc.ok THEN PErr
  ELSE IF IsOp(toks, acc.pos, {"*", "/", "//", "%"})
       THEN TermRest(toks, TermResult(toks[acc.pos].s, acc.v,
                                      ParseFactor(toks, acc.pos + 1)))
       ELSE acc

ParseTerm(toks, i) == TermRest(toks, ParseFactor(toks, i))

\* sum: term (("+" | "-") term)*   (left associative); acc is the sum so far
SumRest(toks, acc) ==
  IF ~acc.ok THEN PErr
  ELSE IF IsOp(toks, acc.pos, {"+", "-"})
       THEN SumRest(toks, SumResult(toks[acc.pos].s, acc.v,
                                    ParseTerm(toks, acc.pos + 1)))
       ELSE acc

ParseSum(toks, i) == SumRest(toks, ParseTerm(toks, i))

\* eval(expr, {"__builtins__": {}}, {}): the value of the expression, or
\* Raised for any exception.
PyEval(expr) ==
  LET toks == Tokenize(expr, 1)
      r == ParseSum(toks, 1)
  IN IF r.ok /\ r.pos = Len(toks) + 1 THEN Val(r.v) ELSE Raised

(***************************************************************************)
(* Number formatting: str(int), str(float) and "%.10g" % float             *)
(***************************************************************************)
RECURSIVE NatDigits(_)
NatDigits(n) ==
  IF n < 10 THEN <<n>> ELSE NatDigits(n \div 10) \o <<n % 10>>

DigitsToStr(ds) == [i \in 1..Len(ds) |-> DigitChar(ds[i])]

\* str(n) for an int
IntToStr(n) ==
  IF n < 0 THEN <<"-">> \o DigitsToStr(NatDigits(-n)) ELSE DigitsToStr(NatDigits(n))

\* Long division: the next n decimal digits of r/q (0 <= r < q) and the
\* remainder left after them.
RECURSIVE FracDigits(_, _, _)
FracDigits(r, q, n) ==
  IF n = 0 THEN [d |-> <<>>, r |-> r]
  ELSE LET x == FracDigits((r * 10) % q, q, n - 1)
       IN [d |-> <<(r * 10) \div q>> \o x.d, r |-> x.r]

\* The number of zeros between the decimal point and the first non-zero
\* digit of r/q, 0 < r < q.
RECURSIVE LeadZeros(_, _)
LeadZeros(r, q) == IF r * 10 >= q THEN 0 ELSE 1 + LeadZeros(r * 10, q)

\* ds + 1 on a digit sequence; the carry out of the first digit is kept as
\* a leading 1.
RECURSIVE IncDigits(_)
IncDigits(ds) ==
  IF ds = <<>> THEN <<1>>
  ELSE IF ds[Len(ds)] < 9 THEN [ds EXCEPT ![Len(ds)] = @ + 1]
  ELSE IncDigits(SubSeq(ds, 1, Len(ds) - 1)) \o <<0>>

RECURSIVE StripZeros(_)
StripZeros(ds) ==
  IF Len(ds) > 1 /\ ds[Len(ds)] = 0 THEN StripZeros(SubSeq(ds, 1, Len(ds) - 1))
  ELSE ds

\* a/q > 0 rounded (half to even) to n significant digits: the digits,
\* trailing zeros removed, and the decimal exponent e of the first one.
SigCarried(raw, inc, e0) ==
  IF Len(inc) > Len(raw)
  THEN [d |-> StripZeros(SubSeq(inc, 1, Len(raw))), e |-> e0 + 1]
  ELSE [d |-> StripZeros(inc), e |-> e0]

\* raw: the first n digits, r/q what is left after them
SigRounded(raw, r, q, e0) ==
  SigCarried(raw,
             IF 2 * r > q \/ (2 * r = q /\ raw[Len(raw)] % 2 = 1)
             THEN IncDigits(raw) ELSE raw,
             e0)

SigOf(ip, fr, q, e0) == SigRounded(ip \o fr.d, fr.r, q, e0)

\* a >= q: ip are the digits of the integral part
SigLarge(a, q, n, ip) ==
  SigOf(ip, FracDigits(a % q, q, n - Len(ip)), q, Len(ip) - 1)

\* a < q: z zeros follow the decimal point
SigSmall(a, q, n, z) ==
  SigOf(<<>>, FracDigits(a * Pow10(z), q, n), q, -(z + 1))

SigDigits(a, q, n) ==
  IF a >= q THEN SigLarge(a, q, n, NatDigits(a \div q))
  ELSE SigSmall(a, q, n, LeadZeros(a, q))

Zeros(n) == [i \in 1..n |-> "0"]

\* d.ddd e+XX
SciNotation(ds, e) ==
  <<DigitChar(ds[1])>>
  \o (IF Len(ds) > 1 THEN <<".">> \o DigitsToStr(SubSeq(ds, 2, Len(ds))) ELSE <<>>)
  \o <<"e", IF e < 0 THEN "-" ELSE "+">>
  \o (IF Abs(e) < 10 THEN <<"0">> ELSE <<>>) \o DigitsToStr(NatDigits(Abs(e)))

\* ddd.ddd; with point0 an integral value still gets ".0" (str(float))
FixedNotation(ds, e, point0) ==
  IF e < 0 THEN <<"0", ".">> \o Zeros(-e - 1) \o DigitsToStr(ds)
  ELSE IF Len(ds) <= e + 1
       THEN DigitsToStr(ds) \o Zeros(e + 1 - Len(ds))
            \o (IF point0 THEN <<".", "0">> ELSE <<>>)
       ELSE DigitsToStr(SubSeq(ds, 1, e + 1)) \o <<".">>
            \o DigitsToStr(SubSeq(ds, e + 2, Len(ds)))

\* Exponent notation when the exponent is < -4 or >= top.
Notation(sd, top, point0) ==
  IF sd.e < -4 \/ sd.e >= top THEN SciNotation(sd.d, sd.e)
  ELSE FixedNotation(sd.d, sd.e, point0)

\* The text of a float v with n significant digits
FloatText(v, n, top, point0) ==
  (IF v.p < 0 THEN <<"-">> ELSE <<>>)
  \o Notation(SigDigits(Abs(v.p), v.q, n), top, point0)

\* "%.10g" % v for a float v: 10 significant digits, trailing zeros
\* removed, exponent notation when the exponent is < -4 or >= 10.
FormatG10(v) ==
  IF v.p = 0 THEN <<"0">> ELSE FloatText(v, 10, 10, FALSE)

\* str(v) for a float v whose decimal expansion ends within 17 digits:
\* repr() switches to exponent notation below 1e-4 and from 1e16 on.
FloatRepr(v) ==
  IF v.p = 0 THEN <<"0", ".", "0">> ELSE FloatText(v, 17, 16, TRUE)

\* abs(val - round(val)) < 1e-9
NearInteger(v) ==
  LET r == v.p % v.q
      d == IF 2 * r > v.q THEN v.q - r ELSE r
  IN d = 0 \/ (v.q \div d) > 1000000000

\* int(round(val)): round half to even
RoundToInt(v) ==
  LET f == FloorDiv(v.p, v.q)
      r == v.p - f * v.q
  IN IF 2 * r > v.q \/ (2 * r = v.q /\ f % 2 = 1) THEN f + 1 ELSE f

(***************************************************************************)
(* d.py / c.py: try_arithmetic                                             *)
(***************************************************************************)
\* Optional[str]: None is a one-element sequence that is no text.
None == <<"None">>

\* The result of an input whose numbers leave the model's range.
Unmodelled == <<"Unmodelled">>

\* ARITH_RE's alternatives, in the order the pattern tries them.
ARITH_TRIGGERS ==
  << <<"i", "l", "e", " ", "t", "o">>,
     <<"p", "o", "l", "i", "c", "z">>,
     <<"o", "b", "l", "i", "c", "z">>,
     <<"j", "a", "k", "i", " ", "j", "e", "s", "t", " ", "w", "y", "n", "i", "k">> >>

\* First index at or after i whose character is none of ":" and whitespace.
RECURSIVE SkipColonSpace(_, _)
SkipColonSpace(s, i) ==
  IF i <= Len(s) /\ (s[i] = ":" \/ IsSpace(s[i])) THEN SkipColonSpace(s, i + 1)
  ELSE i

\* ARITH_RE = ^(ile to|policz|oblicz|jaki jest wynik)[:\s]*  with re.I:
\* the length of the match at the start of s, 0 for no match.
ARITH_RE(s) ==
  LET ls == LowerStr(s)
      hits == {t \in 1..Len(ARITH_TRIGGERS) : StartsWith(ls, ARITH_TRIGGERS[t])}
  IN IF hits = {} THEN 0
     ELSE LET t == CHOOSE x \in hits : \A y \in hits : x <= y
          IN SkipColonSpace(s, Len(ARITH_TRIGGERS[t]) + 1) - 1

\* SAFE_EXPR_RE = ^[0-9\s+\-*/().,%]+$
SAFE_EXPR_RE(expr) ==
  /\ expr # <<>>
  /\ \A i \in 1..Len(expr) :
       IsDigit(expr[i]) \/ IsSpace(expr[i])
       \/ expr[i] \in {"+", "-", "*", "/", "(", ")", ".", ",", "%"}

RECURSIVE SkipSpace(_, _)
SkipSpace(s, i) == IF i <= Len(s) /\ IsSpace(s[i]) THEN SkipSpace(s, i + 1) ELSE i

\* First index after the longest \d+(?:\.\d+)? at i; 0 when s[i] is no digit.
NumberEnd(s, i) ==
  IF i > Len(s) \/ ~IsDigit(s[i]) THEN 0
  ELSE LET j == DigitRunEnd(s, i)
       IN IF j < Len(s) /\ s[j] = "." /\ IsDigit(s[j + 1])
          THEN DigitRunEnd(s, j + 1) ELSE j

\* float(text of \d+(?:\.\d+)? at s[i..e-1])
FloatOf(s, i, e) ==
  LET j == DigitRunEnd(s, i)
  IN DecimalValue(s, i, j, IF j < e THEN e ELSE j + 1)

NoPercentMatch == [ok |-> FALSE, start |-> 0, aEnd |-> 0, bStart |-> 0, bEnd |-> 0]

\* The second number of the pattern, at p3, closes the match.
PercentSecond(i, aEnd, p3, bEnd) ==
  IF bEnd # 0
  THEN [ok |-> TRUE, start |-> i, aEnd |-> aEnd, bStart |-> p3, bEnd |-> bEnd]
  ELSE NoPercentMatch

\* "z" at p2, then \s*
PercentWord(s, i, aEnd, p2) ==
  IF p2 <= Len(s) /\ s[p2] = "z"
  THEN PercentSecond(i, aEnd, SkipSpace(s, p2 + 1),
                     NumberEnd(s, SkipSpace(s, p2 + 1)))
  ELSE NoPercentMatch

\* "%" at p1, then \s*
PercentSign(s, i, aEnd, p1) ==
  IF p1 <= Len(s) /\ s[p1] = "%"
  THEN PercentWord(s, i, aEnd, SkipSpace(s, p1 + 1))
  ELSE NoPercentMatch

\* The first number of the pattern ends before aEnd, then \s*
PercentFirst(s, i, aEnd) ==
  IF aEnd # 0 THEN PercentSign(s, i, aEnd, SkipSpace(s, aEnd))
  ELSE NoPercentMatch

\* (\d+(?:\.\d+)?)\s*%\s*z\s*(\d+(?:\.\d+)?) matched at index i
PercentMatchAt(s, i) == PercentFirst(s, i, NumberEnd(s, i))

\* re.search: the match with the leftmost start.
RECURSIVE PercentSearchFrom(_, _), PercentSearchStep(_, _, _)
PercentSearchStep(s, i, m) == IF m.ok THEN m ELSE PercentSearchFrom(s, i + 1)

PercentSearchFrom(s, i) ==
  IF i > Len(s) THEN NoPercentMatch
  ELSE PercentSearchStep(s, i, PercentMatchAt(s, i))

PercentSearch(s) == PercentSearchFrom(s, 1)

\* m.group(0) replaced by str(val)
PercentSplice(s, m, val) ==
  IF val.k = "unmodelled" THEN Unmodelled
  ELSE SubSeq(s, 1, m.start - 1) \o FloatRepr(val) \o SubSeq(s, m.bEnd, Len(s))

\* PercentValue without the division by 100
PercentValueNotDivided(s, m) ==
  PyMul(FloatOf(s, m.start, m.aEnd), FloatOf(s, m.bStart, m.bEnd)).v

\* val = (a / 100.0) * b for the match m
PercentValue(s, m) ==
  PyMul(PyTrueDiv(FloatOf(s, m.start, m.aEnd), VInt(100)).v,
        FloatOf(s, m.bStart, m.bEnd)).v

PercentRewritten(s, m) ==
  IF ~m.ok THEN s ELSE PercentSplice(s, m, PercentValue(s, m))

\* "a% z b" -> str((a / 100.0) * b), spliced in place of the first match
RewritePercent(s) == PercentRewritten(s, PercentSearch(s))

\* The formatting of eval's value
FormatValue(val) ==
  CASE val.k = "unmodelled" -> Unmodelled
    [] val.k = "float" ->
         IF NearInteger(val) THEN IntToStr(RoundToInt(val))
         ELSE ReplaceChar(FormatG10(val), ".", ",")
    [] val.k = "int" -> IntToStr(val.p)
    [] val.k = "tuple" -> <<"(", ")">>
    [] val.k = "ellipsis" -> <<"E", "l", "l", "i", "p", "s", "i", "s">>

\* re.sub(r"[?]$", "", s)
DropFinalQuestionMark(s) ==
  IF s # <<>> /\ s[Len(s)] = "?" THEN SubSeq(s, 1, Len(s) - 1) ELSE s

\* str of the value of eval(expr), None when eval raises
EvalResult(r) == IF ~r.ok THEN None ELSE FormatValue(r.v)

\* expr = s.replace(" ", ""): SAFE_EXPR_RE, then eval
EvalSafe(expr) ==
  IF ~SAFE_EXPR_RE(expr) THEN None ELSE EvalResult(PyEval(expr))

AfterPercent(s2) ==
  IF s2 = Unmodelled THEN Unmodelled ELSE EvalSafe(RemoveSpaces(s2))

\* m: the length of ARITH_RE's match at the start of s0
AfterTrigger(s0, m) ==
  IF m = 0 THEN None
  ELSE AfterPercent(RewritePercent(ReplaceChar(DropFirst(s0, m), ",", ".")))

Triggered(s0) == AfterTrigger(s0, ARITH_RE(s0))

try_arithmetic(q) == Triggered(DropFinalQuestionMark(Strip(LowerStr(q))))

(***************************************************************************)
(* d.py: the question patterns                                             *)
(***************************************************************************)
\* First index at or after i where lit occurs in s; 0 for none.
RECURSIVE FindFrom(_, _, _)
FindFrom(s, lit, i) ==
  IF i + Len(lit) - 1 > Len(s) THEN 0
  ELSE IF SubSeq(s, i, i + Len(lit) - 1) = lit THEN i
  ELSE FindFrom(s, lit, i + 1)

EndsWith(s, p) == Len(s) >= Len(p) /\ SubSeq(s, Len(s) - Len(p) + 1, Len(s)) = p

\* segs[k..] matched in s from index i on, ".*" between the segments; with
\* toEnd the last segment has to end the text, otherwise ".*" follows it.
RECURSIVE MatchSegsFrom(_, _, _, _, _)
MatchSegsFrom(s, segs, k, i, toEnd) ==
  IF k > Len(segs) THEN TRUE
  ELSE IF k = Len(segs) /\ toEnd
       THEN Len(s) - Len(segs[k]) + 1 >= i /\ EndsWith(s, segs[k])
       ELSE LET at == FindFrom(s, segs[k], i)
            IN at # 0 /\ MatchSegsFrom(s, segs, k + 1, at + Len(segs[k]), toEnd)

\* ^seg1.*seg2.* ... segN(.*)?$ on s
MatchCore(s, pat) ==
  /\ StartsWith(s, pat.segs[1])
  /\ IF Len(pat.segs) = 1 /\ ~pat.gap THEN s = pat.segs[1]
     ELSE MatchSegsFrom(s, pat.segs, 2, Len(pat.segs[1]) + 1, ~pat.gap)

\* pat.search(qs) for a pattern  ^seg1.*seg2...segN TAIL  compiled with
\* re.I, where TAIL is  \??$  (qopt) or  .*\?$  (gap): the text less its
\* final "?" has to match the segments.
PatternSearch(pat, qs) ==
  LET s == LowerStr(qs)
      hasQ == s # <<>> /\ s[Len(s)] = "?"
      lessQ == SubSeq(s, 1, Len(s) - 1)
  IN \/ hasQ /\ MatchCore(lessQ, pat)
     \/ pat.qopt /\ MatchCore(s, pat)

\* answer_general's table of fixed answers: (pattern, answer)
lexicon ==
  <<[pat |-> [segs |-> <<<<"j", "a", "k", " ", "b", "r", "z", "m", "i", " ", "n", "a", "z", "w",
                "a", " ", "t", "e", "r", "e", "n", "o", "w", "e", "j",
                " ", "l_", "a", "d", "y">>>>,
     gap |-> FALSE, qopt |-> TRUE],
     ans |-> <<"N", "i", "v", "a">>],
    [pat |-> [segs |-> <<<<"j", "a", "k", " ", "n", "a", "z", "y", "w", "a", " ", "s", "i", "e_",
                " ", "p", "o", "j", "e", "d", "y", "n", "c", "z", "y",
                " ", "e", "l", "e", "m", "e", "n", "t", " ", "s", "c",
                "h", "o", "d", "o_", "w">>>>,
     gap |-> TRUE, qopt |-> FALSE],
     ans |-> <<"s", "t", "o", "p", "i", "e", "n_">>],
    [pat |-> [segs |-> <<<<"j", "a", "k", " ", "n", "a", "z", "y", "w", "a", "j", "a_", " ", "s",
                "i", "e_", " ", "b", "o", "c", "z", "n", "e", " ", "p",
                "a", "s", "y", " ", "n", "a", " ", "m", "u", "n", "d",
                "u", "r", "o", "w", "y", "c", "h", " ", "s", "p", "o",
                "d", "n", "i", "a", "c", "h">>>>,
     gap |-> FALSE, qopt |-> TRUE],
     ans |-> <<"l", "a", "m", "p", "a", "s", "y">>],
    [pat |-> [segs |-> <<<<"j", "a", "k", " ", "n", "a", "z", "y", "w", "a", "l_", " ", "s", "i",
                "e_", " ", "g", "i", "g", "a", "n", "t", "y", "c", "z",
                "n", "y", " ", "g", "o", "r", "y", "l", ",", " ", "b",
                "o", "h", "a", "t", "e", "r", " ", "f", "i", "l", "m",
                "o_", "w", " ", "j", "a", "p", "o", "n_", "s", "k", "i",
                "c", "h">>>>,
     gap |-> FALSE, qopt |-> TRUE],
     ans |-> <<"K", "i", "n", "g", " ", "K", "o", "n", "g">>],
    [pat |-> [segs |-> <<<<"j", "a", "k", " ", "z", " ", "l_", "a", "c", "i", "n", "y", " ", "n",
                "a", "z", "y", "w", "a", " ", "s", "i", "e_", " ", "d",
                "o", "w", "o_", "d", " ", "s", "a_", "d", "o", "w", "y">>>>,
     gap |-> TRUE, qopt |-> FALSE],
     ans |-> <<"a", "l", "i", "b", "i">>],
    [pat |-> [segs |-> <<<<"k", "t", "o_", "r", "y", " ", "k", "o", "l", "u", "m", "b", "i", "j",
                "s", "k", "i", " ", "p", "i", "s", "a", "r", "z">>,
              <<"1", "9", "2", "7">>,
              <<"s", "t", "o", " ", "l", "a", "t", " ", "s", "a", "m", "o", "t", "n",
                "o", "s_", "c", "i">>>>,
     gap |-> TRUE, qopt |-> FALSE],
     ans |-> <<"G", "a", "b", "r", "i", "e", "l", " ", "G", "a", "r", "c", "i^", "a",
            " ", "M", "a^", "r", "q", "u", "e", "z">>],
    [pat |-> [segs |-> <<<<"w", " ", "k", "t", "o_", "r", "y", "m", " ", "w", "i", "e", "k", "u",
                " ", "z", "o", "s", "t", "a", "l_", " ", "o", "d", "l",
                "a", "n", "y", " ", "d", "z", "w", "o", "n", " ", "z",
                "y", "g", "m", "u", "n", "t", "a">>>>,
     gap |-> FALSE, qopt |-> TRUE],
     ans |-> <<"X", "V", "I">>],
    [pat |-> [segs |-> <<<<"z", " ", "k", "t", "o_", "r", "e", "g", "o", " ", "k", "o", "n", "t",
                "y", "n", "e", "n", "t", "u", " ", "p", "o", "c", "h",
                "o", "d", "z", "i", " ", "9", "0", "%">>,
              <<"r", "y", "z_", "u">>>>,
     gap |-> FALSE, qopt |-> TRUE],
     ans |-> <<"A", "z", "j", "a">>],
    [pat |-> [segs |-> <<<<"k", "t", "o_", "r", "a", " ", "o", "r", "g", "a", "n", "i", "z", "a",
                "c", "j", "a", " ", "p", "o", "w", "s", "t", "a", "l_",
                "a", " ", "w", "c", "z", "e", "s_", "n", "i", "e", "j",
                ":">>,
              <<"e", "w">>,
              <<"e", "u", "r", "a", "t", "o", "m">>>>,
     gap |-> TRUE, qopt |-> FALSE],
     ans |-> <<"E", "W", "W", "i", "S">>]>>

\* cloze templates whose patterns are those of the lexicon in reverse order
templates_reversed ==
  [k \in 1..Len(lexicon) |->
     [pat |-> lexicon[Len(lexicon) + 1 - k].pat,
      sent |-> <<"<mask>", ".">>,
      multi |-> FALSE]]

\* answer_general's cloze templates: (pattern, sentence, multi_token)
templates ==
  <<[pat |-> [segs |-> <<<<"j", "a", "k", " ", "b", "r", "z", "m", "i", " ", "n", "a", "z", "w",
                "a", " ", "t", "e", "r", "e", "n", "o", "w", "e", "j",
                " ", "l_", "a", "d", "y">>>>,
     gap |-> FALSE, qopt |-> TRUE],
     sent |-> <<"T", "e", "r", "e", "n", "o", "w", "a", " ", "L_", "a", "d", "a", " ",
            "t", "o", " ", "<mask>", ".">>,
     multi |-> FALSE],
    [pat |-> [segs |-> <<<<"j", "a", "k", " ", "n", "a", "z", "y", "w", "a", " ", "s", "i", "e_",
                " ", "p", "o", "j", "e", "d", "y", "n", "c", "z", "y",
                " ", "e", "l", "e", "m", "e", "n", "t", " ", "s", "c",
                "h", "o", "d", "o_", "w">>>>,
     gap |-> TRUE, qopt |-> FALSE],
     sent |-> <<"P", "o", "j", "e", "d", "y", "n", "c", "z", "y", " ", "e", "l", "e",
            "m", "e", "n", "t", " ", "s", "c", "h", "o", "d", "o_", "w",
            " ", "t", "o", " ", "<mask>", ".">>,
     multi |-> FALSE],
    [pat |-> [segs |-> <<<<"j", "a", "k", " ", "n", "a", "z", "y", "w", "a", "j", "a_", " ", "s",
                "i", "e_", " ", "b", "o", "c", "z", "n", "e", " ", "p",
                "a", "s", "y", " ", "n", "a", " ", "m", "u", "n", "d",
                "u", "r", "o", "w", "y", "c", "h", " ", "s", "p", "o",
                "d", "n", "i", "a", "c", "h">>>>,
     gap |-> FALSE, qopt |-> TRUE],
     sent |-> <<"B", "o", "c", "z", "n", "e", " ", "p", "a", "s", "y", " ", "n", "a",
            " ", "m", "u", "n", "d", "u", "r", "o", "w", "y", "c", "h",
            " ", "s", "p", "o", "d", "n", "i", "a", "c", "h", " ", "t",
            "o", " ", "<mask>", ".">>,
     multi |-> FALSE],
    [pat |-> [segs |-> <<<<"j", "a", "k", " ", "n", "a", "z", "y", "w", "a", "l_", " ", "s", "i",
                "e_", " ", "g", "i", "g", "a", "n", "t", "y", "c", "z",
                "n", "y", " ", "g", "o", "r", "y", "l", ",", " ", "b",
                "o", "h", "a", "t", "e", "r", " ", "f", "i", "l", "m",
                "o_", "w", " ", "j", "a", "p", "o", "n_", "s", "k", "i",
                "c", "h">>>>,
     gap |-> FALSE, qopt |-> TRUE],
     sent |-> <<"G", "i", "g", "a", "n", "t", "y", "c", "z", "n", "y", " ", "g", "o",
            "r", "y", "l", " ", "z", " ", "f", "i", "l", "m", "o_", "w",
            " ", "n", "a", "z", "y", "w", "a", "l_", " ", "s", "i", "e_",
            " ", "<mask>", ".">>,
     multi |-> FALSE],
    [pat |-> [segs |-> <<<<"j", "a", "k", " ", "z", " ", "l_", "a", "c", "i", "n", "y", " ", "n",
                "a", "z", "y", "w", "a", " ", "s", "i", "e_", " ", "d",
                "o", "w", "o_", "d", " ", "s", "a_", "d", "o", "w", "y">>>>,
     gap |-> TRUE, qopt |-> FALSE],
     sent |-> <<"D", "o", "w", "o_", "d", " ", "n", "i", "e", "o", "b", "e", "c", "n",
            "o", "s_", "c", "i", " ", "s", "p", "r", "a", "w", "c", "y",
            " ", "n", "a", " ", "m", "i", "e", "j", "s", "c", "u", " ",
            "t", "o", " ", "p", "o", " ", "l_", "a", "c", "i", "n", "i",
            "e", " ", "<mask>", ".">>,
     multi |-> FALSE],
    [pat |-> [segs |-> <<<<"k", "t", "o_", "r", "y", " ", "k", "o", "l", "u", "m", "b", "i", "j",
                "s", "k", "i", " ", "p", "i", "s", "a", "r", "z">>,
              <<"1", "9", "2", "7">>,
              <<"s", "t", "o", " ", "l", "a", "t", " ", "s", "a", "m", "o", "t", "n",
                "o", "s_", "c", "i">>>>,
     gap |-> TRUE, qopt |-> FALSE],
     sent |-> <<"A", "u", "t", "o", "r", "e", "m", " ", "lquote", "S", "t", "u", " ",
            "l", "a", "t", " ", "s", "a", "m", "o", "t", "n", "o", "s_",
            "c", "i", "rquote", " ", "j", "e", "s", "t", " ", "<mask>",
            ".">>,
     multi |-> TRUE],
    [pat |-> [segs |-> <<<<"w", " ", "k", "t", "o_", "r", "y", "m", " ", "w", "i", "e", "k", "u",
                " ", "z", "o", "s", "t", "a", "l_", " ", "o", "d", "l",
                "a", "n", "y", " ", "d", "z", "w", "o", "n", " ", "z",
                "y", "g", "m", "u", "n", "t", "a">>>>,
     gap |-> FALSE, qopt |-> TRUE],
     sent |-> <<"D", "z", "w", "o", "n", " ", "Z", "y", "g", "m", "u", "n", "t", " ",
            "o", "d", "l", "a", "n", "o", " ", "w", " ", "<mask>", " ",
            "w", "i", "e", "k", "u", ".">>,
     multi |-> FALSE],
    [pat |-> [segs |-> <<<<"z", " ", "k", "t", "o_", "r", "e", "g", "o", " ", "k", "o", "n", "t",
                "y", "n", "e", "n", "t", "u", " ", "p", "o", "c", "h",
                "o", "d", "z", "i", " ", "9", "0", "%">>,
              <<"r", "y", "z_", "u">>>>,
     gap |-> FALSE, qopt |-> TRUE],
     sent |-> <<"D", "z", "i", "e", "w", "i", "e_", "c_", "d", "z", "i", "e", "s", "i",
            "a_", "t", " ", "p", "r", "o", "c", "e", "n", "t", " ", "s_",
            "w", "i", "a", "t", "o", "w", "e", "j", " ", "p", "r", "o",
            "d", "u", "k", "c", "j", "i", " ", "r", "y", "z_", "u", " ",
            "p", "o", "c", "h", "o", "d", "z", "i", " ", "z", " ",
            "<mask>", ".">>,
     multi |-> FALSE],
    [pat |-> [segs |-> <<<<"k", "t", "o_", "r", "a", " ", "o", "r", "g", "a", "n", "i", "z", "a",
                "c", "j", "a", " ", "p", "o", "w", "s", "t", "a", "l_",
                "a", " ", "w", "c", "z", "e", "s_", "n", "i", "e", "j",
                ":">>,
              <<"e", "w">>,
              <<"e", "u", "r", "a", "t", "o", "m">>>>,
     gap |-> TRUE, qopt |-> FALSE],
     sent |-> <<"<mask>", " ", "p", "o", "w", "s", "t", "a", "l_", "a", " ", "w", "c",
            "z", "e", "s_", "n", "i", "e", "j", ".">>,
     multi |-> FALSE]>>

(***************************************************************************)
(* CAPITAL_PATTERNS and the extraction of the country                      *)
(***************************************************************************)
NoMatch == <<"NoMatch">>

\* ^<head>\s+(.+?)\?$ with re.I on whitespace-normalised text: group 1
\* of the match, NoMatch for none
MatchHeadGroup(qs, head) ==
  LET s == LowerStr(qs)
      n == Len(head)
  IN IF /\ StartsWith(s, head)
        /\ Len(s) >= n + 3
        /\ IsSpace(s[n + 1])
        /\ s[Len(s)] = "?"
     THEN SubSeq(qs, n + 2, Len(qs) - 1)
     ELSE NoMatch

\* the tails  \s+jest\s*\??$  can end a normalised text with
JestTails == <<<<" ", "j", "e", "s", "t">>, <<" ", "j", "e", "s", "t", "?">>, <<" ", "j", "e", "s", "t", " ", "?">>>>

\* the tails that can end s after "stolica_" and a group of one character
JestFits(s, n) ==
  {k \in 1..Len(JestTails) :
     EndsWith(s, JestTails[k]) /\ Len(s) - Len(JestTails[k]) >= n + 2}

\* the lazy group ends before the longest tail that fits
JestGroup(qs, n, fits) ==
  IF fits = {} THEN NoMatch
  ELSE SubSeq(qs, n + 2,
              Len(qs) - Len(JestTails[CHOOSE x \in fits : \A y \in fits :
                                        Len(JestTails[y]) <= Len(JestTails[x])]))

StolicaJest(qs, s, head) ==
  IF StartsWith(s, head) /\ Len(s) > Len(head) /\ IsSpace(s[Len(head) + 1])
  THEN JestGroup(qs, Len(head), JestFits(s, Len(head)))
  ELSE NoMatch

\* ^stolica_\s+(.+?)\s+jest\s*\??$ with re.I: group 1, NoMatch for none
MatchStolicaJest(qs) ==
  StolicaJest(qs, LowerStr(qs), <<"s", "t", "o", "l", "i", "c", "a_">>)

\* pat.match(q_clean) for the k-th of CAPITAL_PATTERNS: m.group(1) or NoMatch
CAPITAL_PATTERNS(k, qs) ==
  CASE k = 1 -> MatchHeadGroup(qs, <<"j", "a", "k", "a", " ", "j", "e", "s", "t", " ", "s", "t", "o", "l",
                                     "i", "c", "a">>)
    [] k = 2 -> MatchHeadGroup(qs, <<"s", "t", "o", "l", "i", "c", "a">>)
    [] k = 3 -> MatchStolicaJest(qs)

NumCapitalPatterns == 3

\* for pat in CAPITAL_PATTERNS: m = pat.match(q_clean); if m: ... break
\* group 1 of the first pattern, from the k-th on, that matches; NoMatch
\* for none
RECURSIVE CapitalGroupFrom(_, _), CapitalGroupOr(_, _, _)
CapitalGroupOr(qs, k, g) == IF g # NoMatch THEN g ELSE CapitalGroupFrom(qs, k + 1)

CapitalGroupFrom(qs, k) ==
  IF k > NumCapitalPatterns THEN NoMatch
  ELSE CapitalGroupOr(qs, k, CAPITAL_PATTERNS(k, qs))

CapitalGroup(qs) == CapitalGroupFrom(qs, 1)

CountryPrepositions ==
  {<<"p", "a", "n_", "s", "t", "w", "a">>, <<"k", "r", "a", "j", "u">>, <<"k", "r", "a", "j", "e", "m">>, <<"w">>, <<"w", "e">>, <<"z">>, <<"z", "e">>}

RECURSIVE StripChars(_, _)
\* str.strip(chars)
StripChars(s, chars) ==
  IF s = <<>> THEN s
  ELSE IF s[1] \in chars THEN StripChars(Tail(s), chars)
  ELSE IF s[Len(s)] \in chars THEN StripChars(SubSeq(s, 1, Len(s) - 1), chars)
  ELSE s

\* the lengths of the matches of ^(panstwa|kraju|krajem|w|we|z|ze)\s
PrepositionCuts(country, low) ==
  {n \in 1..Len(country) :
     IsSpace(country[n]) /\ SubSeq(low, 1, n - 1) \in CountryPrepositions}

WithoutPreposition(country, cut) ==
  IF cut = {} THEN country
  ELSE LStrip(DropFirst(country, CHOOSE n \in cut : TRUE))

\* re.sub(r"^(panstwa|kraju|krajem|w|we|z|ze)\s+", "", country, flags=re.I)
\* followed by country.strip(" .")
CleanCountry(country) ==
  StripChars(WithoutPreposition(country,
                                PrepositionCuts(country, LowerStr(country))),
             {" ", "."})

Capitalised(country) ==
  IF country # <<>> /\ IsLowerChar(country[1])
  THEN <<UpperChar(country[1])>> \o Tail(country)
  ELSE country

\* ask_capital's opening: normalise the country and capitalise its first letter
CapitalSentenceCountry(country_raw) ==
  Capitalised(normalize_whitespace(country_raw))

(***************************************************************************)
(* The language models.  The weights are not part of the repository: an    *)
(* adapter is one of NumAdapters deterministic models, numbered from 0,    *)
(* that give every query an answer depending on the adapter and the query. *)
(***************************************************************************)
NumAdapters == 5

Adapters == 0..(NumAdapters - 1)

Pred(score, token_str) == [score |-> score, token_str |-> token_str]

\* Outputs of the fill-mask pipeline, best first (scores in percent)
PredLists ==
  <<<<Pred(90, <<" ", "R", "z", "y", "m">>), Pred(6, <<" ", "O", "s", "l", "o">>), Pred(2, <<",">>)>>,
    <<Pred(60, <<",">>), Pred(30, <<" ", "O", "s", "l", "o">>)>>,
    <<Pred(50, <<"Gdot">>), Pred(40, <<" ">>)>>,
    <<Pred(50, <<" ", "r", "z", "y", "m">>), Pred(50, <<" ", "R", "z", "y", "m">>), Pred(20, <<"i">>)>>,
    <<Pred(70, <<" ", "LowLine", "L", "i", "m", "a">>), Pred(20, <<".">>), Pred(5, <<" ", "R", "z", "y", "m">>)>>>>

\* self.fill(t): the pipeline's predictions for the masked sentence t
Fill(adapter, t) == PredLists[1 + ((adapter + Len(t)) % Len(PredLists))]

\* Decoded continuations of the causal model
GenTexts ==
  <<<<" ", "R", "z", "y", "m", ".", " ", "P", "y", "t", "a", "n", "i", "e",
      ":", " ", "I", "l", "e">>, <<>>, <<" ", "n", "i", "e", " ", "w", "i", "a", "d", "o", "m", "o">>, <<"?", " ", "O", "s", "l", "o">>, <<" ", "[", "1", "]", " ", "L", "i", "m", "a">>>>

\* tokenizer.decode(model.generate(...)[prompt:]) for the prompt
Gen(adapter, prompt) == GenTexts[1 + ((adapter + Len(prompt)) % Len(GenTexts))]

\* Special token ids of the RoBERTa vocabulary
BosId == 0
EosId == 2
UnkId == 3
MaskId == 4
FirstCharId == 5

TokenId(c) ==
  IF \E i \in 1..Len(CodePointOrder) : CodePointOrder[i] = c
  THEN FirstCharId + Ord(c) ELSE UnkId

\* tokenizer(text)["input_ids"][0]: <s>, one id per character, </s>
tokenizer(text) == <<BosId>> \o [i \in 1..Len(text) |-> TokenId(text[i])] \o <<EosId>>

\* tokenizer(text)["attention_mask"][0]: a single unpadded text has all ones
AttentionMask(input_ids) == [i \in 1..Len(input_ids) |-> 1]

RECURSIVE SumSeq(_)
SumSeq(s) == IF s = <<>> THEN 0 ELSE s[1] + SumSeq(Tail(s))

\* log_softmax(model(masked).logits[0, i])[tok] as a whole number of nats;
\* adapter 0 is the model that is indifferent between all tokens
LogProb(adapter, masked, i, tok) ==
  -(1 + ((adapter * (SumSeq(masked) + 3 * tok + i)) % 5))

(***************************************************************************)
(* pll: the pseudo-log-likelihood of a token sequence                      *)
(***************************************************************************)
\* range(1, len(input_ids) - 1), positions counted from 1
PllFirst == 2
PllLast(input_ids) == Len(input_ids) - 1

\* masked = input_ids.clone(); masked[i] = mask_token_id
MaskAt(input_ids, i) == [input_ids EXCEPT ![i] = MaskId]

\* One pass of the loop body at position i on the accumulators
PllIter(adapter, input_ids, attn, i, acc) ==
  IF attn[i] = 0 THEN acc
  ELSE [sum |-> acc.sum + LogProb(adapter, MaskAt(input_ids, i), i, input_ids[i]),
        count |-> acc.count + 1]

Max(a, b) == IF a >= b THEN a ELSE b

\* PllReturn without the division: the sum
PllReturnSum(sum, count) == [num |-> sum, den |-> 1]

\* log_prob_sum / max(count, 1) as the fraction num/den
PllReturn(sum, count) == [num |-> sum, den |-> Max(count, 1)]

RECURSIVE PllLoop(_, _, _, _, _)
PllLoop(adapter, input_ids, attn, i, acc) ==
  IF i > PllLast(input_ids) THEN acc
  ELSE PllLoop(adapter, input_ids, attn, i + 1,
               PllIter(adapter, input_ids, attn, i, acc))

pll(adapter, text) ==
  LET input_ids == tokenizer(text)
      acc == PllLoop(adapter, input_ids, AttentionMask(input_ids), PllFirst,
                     [sum |-> 0, count |-> 0])
  IN PllReturn(acc.sum, acc.count)

\* s >= t for two pll scores
ScoreNotLess(s, t) == s.num * t.den >= t.num * s.den

\* s > t for two pll scores
ScoreGreater(s, t) == s.num * t.den > t.num * s.den

(***************************************************************************)
(* d.py: MaskedLMEngine                                                    *)
(***************************************************************************)
RECURSIVE RemoveChar(_, _)
\* s.replace(c, "")
RemoveChar(s, c) ==
  IF s = <<>> THEN s
  ELSE IF s[1] = c THEN RemoveChar(Tail(s), c)
  ELSE <<s[1]>> \o RemoveChar(Tail(s), c)

RemoveBpeMarks(s) == RemoveChar(RemoveChar(s, "Gdot"), "LowLine")

clean_tok(s) == Strip(RemoveBpeMarks(s))

Min(a, b) == IF a <= b THEN a ELSE b

RECURSIVE ReplaceMask(_, _)
\* sent.replace("<mask>", c)
ReplaceMask(sent, c) ==
  IF sent = <<>> THEN sent
  ELSE IF sent[1] = "<mask>" THEN c \o ReplaceMask(Tail(sent), c)
  ELSE <<sent[1]>> \o ReplaceMask(Tail(sent), c)

\* self.topk
DefaultTopK == 10

\* preds[:topk]
FirstK(preds, limit) == SubSeq(preds, 1, Min(limit, Len(preds)))

\* tok = self._clean_tok(p["token_str"]) for every prediction
Cleaned(preds) ==
  [k \in 1..Len(preds) |->
     [score |-> preds[k].score, tok |-> clean_tok(preds[k].token_str)]]

\* if tok: out.append((tok, score))
NonEmpty(cands) == SelectSeq(cands, LAMBDA p : p.tok # <<>>)

\* fill_one: the cleaned, non-empty tokens of the first topk predictions;
\* the mask token of the model is the text "<mask>" itself
fill_one(adapter, template, topk) ==
  NonEmpty(Cleaned(FirstK(Fill(adapter, template),
                          IF topk # 0 THEN topk ELSE DefaultTopK)))

Toks(cands) == [k \in 1..Len(cands) |-> cands[k].tok]

\* (s1, c1) < (s2, c2) for two (score, candidate) tuples
ScoredLess(a, b) ==
  \/ ScoreGreater(b.s, a.s)
  \/ ~ScoreGreater(a.s, b.s) /\ StrLess(a.c, b.c)

\* scored = [(pll(sent.replace("<mask>", c)), c) ...]
Scored(adapter, sent, cands) ==
  [k \in 1..Len(cands) |->
     [s |-> pll(adapter, ReplaceMask(sent, cands[k])), c |-> cands[k]]]

\* scored.sort(reverse=True); scored[0][1]
Best(scored) ==
  scored[CHOOSE k \in 1..Len(scored) :
           \A j \in 1..Len(scored) : ~ScoredLess(scored[k], scored[j])].c

BestByPll(adapter, sent, cands) == Best(Scored(adapter, sent, cands))

PllCalls(n) == [k \in 1..n |-> "pll"]

\* Result of an engine method: the value returned and the model calls made
Ret(ans, calls) == [ans |-> ans, calls |-> calls]

\* r, after the model calls already made
WithCalls(calls, r) == Ret(r.ans, calls \o r.calls)

\* the candidates of one fill, re-ranked by pll; None without candidates
PickByPll(adapter, sent, cands) ==
  IF cands = <<>> THEN Ret(None, <<"fill">>)
  ELSE Ret(BestByPll(adapter, sent, cands), <<"fill">> \o PllCalls(Len(cands)))

Cloze(adapter, sent) == PickByPll(adapter, sent, Toks(fill_one(adapter, sent, 5)))

ask_capital(adapter, country_raw) ==
  Cloze(adapter,
        <<"S", "t", "o", "l", "i", "c", "a_", " ">>
        \o CapitalSentenceCountry(country_raw)
        \o <<" ", "j", "e", "s", "t", " ", "<mask>", ".">>)

yes_no(adapter, q) ==
  LET s_yes == pll(adapter, Strip(q) \o <<" ", "T", "a", "k", ".">>)
      s_no == pll(adapter, Strip(q) \o <<" ", "N", "i", "e", ".">>)
  IN Ret(IF ScoreGreater(s_yes, s_no) THEN <<"T", "a", "k">> ELSE <<"N", "i", "e">>, <<"pll", "pll">>)

\* StopTokens without the conjunction "i"
PunctuationTokens == {<<",">>, <<".">>, <<";">>, <<"!">>, <<"?">>}

\* {",", ".", ";", "!", "?", "i"}
StopTokens == {<<",">>, <<".">>, <<";">>, <<"!">>, <<"?">>, <<"i">>}

RECURSIVE JoinSpace(_)
\* " ".join(tokens)
JoinSpace(tokens) ==
  IF tokens = <<>> THEN <<>>
  ELSE IF Len(tokens) = 1 THEN tokens[1]
  ELSE tokens[1] \o <<" ">> \o JoinSpace(Tail(tokens))

RECURSIVE GreedyLoop(_, _, _, _, _), GreedyStep(_, _, _, _, _, _)
\* one round of greedy_span's loop with the candidates of its fill
GreedyStep(adapter, cur, terminator, answer_tokens, n, cands) ==
  IF cands = <<>> \/ cands[1].tok \in StopTokens
  THEN Ret(answer_tokens, <<"fill">>)
  ELSE WithCalls(<<"fill">>,
                 GreedyLoop(adapter, cur \o <<" ">> \o cands[1].tok, terminator,
                            Append(answer_tokens, cands[1].tok), n - 1))

\* the loop of greedy_span with n rounds left: the tokens and the fills made
GreedyLoop(adapter, cur, terminator, answer_tokens, n) ==
  IF n = 0 THEN Ret(answer_tokens, <<>>)
  ELSE GreedyStep(adapter, cur, terminator, answer_tokens, n,
                  fill_one(adapter, cur \o <<" ", "<mask>">> \o terminator, 5))

\* " ".join(answer_tokens).strip()
SpanText(r) == Ret(Strip(JoinSpace(r.ans)), r.calls)

greedy_span(adapter, prefix, max_tokens, terminator) ==
  SpanText(GreedyLoop(adapter, prefix, terminator, <<>>, max_tokens))

\* Index of the first entry of table, from k on, whose pattern is found in
\* qs; 0 for none
RECURSIVE FirstPatternFrom(_, _, _)
FirstPatternFrom(table, qs, k) ==
  IF k > Len(table) THEN 0
  ELSE IF PatternSearch(table[k].pat, qs) THEN k
  ELSE FirstPatternFrom(table, qs, k + 1)

FirstPattern(table, qs) == FirstPatternFrom(table, qs, 1)

\* sent.split("<mask>")[0]
BeforeMask(sent) ==
  LET at == {i \in 1..Len(sent) : sent[i] = "<mask>"}
  IN IF at = {} THEN sent
     ELSE SubSeq(sent, 1, (CHOOSE i \in at : \A j \in at : i <= j) - 1)

\* span = self.greedy_span(prefix, ...) for a multi-token template
TemplateSpan(adapter, entry) ==
  IF entry.multi
  THEN greedy_span(adapter, RStrip(Strip(BeforeMask(entry.sent))), 3, <<".">>)
  ELSE Ret(<<>>, <<>>)

\* if span: return span; else the single-token cloze
AfterSpan(adapter, entry, span) ==
  IF span.ans # <<>> THEN span
  ELSE WithCalls(span.calls, Cloze(adapter, entry.sent))

\* the cloze branch of answer_general for the matching template entry
AnswerTemplate(adapter, entry) ==
  AfterSpan(adapter, entry, TemplateSpan(adapter, entry))

\* the first candidate of the generic cloze, None without candidates
FirstOrNone(cands) ==
  IF cands # <<>> THEN Ret(cands[1], <<"fill">>) ELSE Ret(None, <<"fill">>)

\* the generic single-token cloze of answer_general
AnswerGeneric(adapter, qs) ==
  FirstOrNone(Toks(fill_one(adapter,
                            qs \o <<" ", "O", "d", "p", "o", "w", "i", "e", "d",
                                    "x_", ":", " ", "<mask>", ".">>,
                            3)))

\* tpl: the first template whose pattern is found, 0 for none
GeneralTemplate(adapter, qs, tpl) ==
  IF tpl # 0 THEN AnswerTemplate(adapter, templates[tpl])
  ELSE AnswerGeneric(adapter, qs)

\* lex: the first lexicon entry whose pattern is found, 0 for none
GeneralLexicon(adapter, qs, lex) ==
  IF lex # 0 THEN Ret(lexicon[lex].ans, <<>>)
  ELSE GeneralTemplate(adapter, qs, FirstPattern(templates, qs))

GeneralOf(adapter, qs) == GeneralLexicon(adapter, qs, FirstPattern(lexicon, qs))

answer_general(adapter, q) == GeneralOf(adapter, normalize_whitespace(q))

(***************************************************************************)
(* c.py: MaskedLMEngine.ask_capital, try_capital and GPT2Gen               *)
(***************************************************************************)
IsTitleChar(c) == \E i \in 1..Len(UpperChars) : UpperChars[i] = c

CandKeyOf(score, t) ==
  <<0 - score, IF t # <<>> /\ IsTitleChar(t[1]) THEN 0 ELSE 1, Len(t)>>

\* key of candidates.sort in c.py: (-score, 0 if title-case else 1, length)
CandKey(p) == CandKeyOf(p.score, Strip(p.token_str))

KeyLess(a, b) ==
  \/ a[1] < b[1]
  \/ a[1] = b[1] /\ a[2] < b[2]
  \/ a[1] = b[1] /\ a[2] = b[2] /\ a[3] < b[3]

\* candidates: the predictions whose stripped token is not empty
Candidates(preds) == SelectSeq(preds, LAMBDA p : Strip(p.token_str) # <<>>)

\* candidates.sort(key=...) is stable: the first of the least key
FirstByKey(candidates) ==
  CHOOSE k \in 1..Len(candidates) :
    /\ \A j \in 1..Len(candidates) :
         ~KeyLess(CandKey(candidates[j]), CandKey(candidates[k]))
    /\ \A j \in 1..(k - 1) :
         KeyLess(CandKey(candidates[k]), CandKey(candidates[j]))

BestCandidate(candidates) ==
  IF candidates = <<>> THEN None
  ELSE RemoveBpeMarks(Strip(candidates[FirstByKey(candidates)].token_str))

\* c.py ask_capital after the pipeline call returned preds
PickCapital(preds) == BestCandidate(Candidates(preds))

\* c.py ask_capital; with raises the pipeline call fails and is swallowed
ask_capital_c(adapter, country_raw, raises) ==
  IF raises THEN Ret(None, <<"fill">>)
  ELSE Ret(PickCapital(Fill(adapter,
                            <<"S", "t", "o", "l", "i", "c", "a_", " ">>
                            \o CapitalSentenceCountry(country_raw)
                            \o <<" ", "j", "e", "s", "t", " ", "<mask>", ".">>)),
           <<"fill">>)

\* g: group 1 of the first matching pattern
TryCapitalGroup(adapter, g, raises) ==
  IF g = NoMatch THEN Ret(None, <<>>)
  ELSE ask_capital_c(adapter, CleanCountry(g), raises)

try_capital(adapter, q, raises) ==
  TryCapitalGroup(adapter, CapitalGroup(normalize_whitespace(q)), raises)

FEW_SHOT_EXAMPLES ==
  <<[q |-> <<"I", "l", "e", " ", "d", "n", "i", " ", "m", "a", " ", "t", "y", "d",
             "z", "i", "e", "n_", "?">>, a |-> <<"7">>],
    [q |-> <<"J", "a", "k", "i", "e", " ", "j", "e", "s", "t", " ", "n", "a", "j",
             "w", "i", "e_", "k", "s", "z", "e", " ", "m", "o", "r", "z",
             "e", " ", "s_", "r", "o_", "d", "l", "a_", "d", "o", "w",
             "e", " ", "n", "a", " ", "s_", "w", "i", "e", "c", "i", "e",
             "?">>,
     a |-> <<"M", "o", "r", "z", "e", " ", "K", "a", "s", "p", "i", "j", "s", "k",
             "i", "e">>],
    [q |-> <<"J", "a", "k", " ", "n", "a", "z", "y", "w", "a", " ", "s", "i", "e_",
             " ", "s", "t", "o", "l", "i", "c", "a", " ", "H", "i", "s",
             "z", "p", "a", "n", "i", "i", "?">>, a |-> <<"M", "a", "d", "r", "y", "t">>]>>

RECURSIVE Shots(_)
\* "".join(f"Pytanie: {q} Odpowiedz: {a}" for the k first examples)
Shots(k) ==
  IF k = 0 THEN <<>>
  ELSE Shots(k - 1) \o <<"P", "y", "t", "a", "n", "i", "e", ":", " ">> \o FEW_SHOT_EXAMPLES[k].q
         \o <<" ", "O", "d", "p", "o", "w", "i", "e", "d", "x_", ":", " ">> \o FEW_SHOT_EXAMPLES[k].a

build_prompt(question, k) ==
  Shots(Min(k, Len(FEW_SHOT_EXAMPLES))) \o <<" ", "P", "y", "t", "a", "n", "i", "e", ":", " ">> \o question
    \o <<" ", "O", "d", "p", "o", "w", "i", "e", "d", "x_", ":", " ">>

\* the separators of re.split(r"[]|[.?!]", gen)
GenSeparators == {"]", "|", "[", ".", "?", "!"}

\* re.split(...)[0]
RECURSIVE BeforeSeparator(_)
BeforeSeparator(gen) ==
  IF gen = <<>> \/ gen[1] \in GenSeparators THEN <<>>
  ELSE <<gen[1]>> \o BeforeSeparator(Tail(gen))

generate(adapter, question, k_shots) ==
  Ret(Strip(BeforeSeparator(Strip(Gen(adapter, build_prompt(question, k_shots))))),
      <<"generate">>)

(***************************************************************************)
(* sort_questions                                                          *)
(***************************************************************************)
\* a <= b for str
StrLeq(a, b) == a = b \/ StrLess(a, b)

RECURSIVE Insert(_, _)
\* xs with x put before the first element greater than x
Insert(xs, x) ==
  IF xs = <<>> THEN <<x>>
  ELSE IF StrLess(x, xs[1]) THEN <<x>> \o xs
  ELSE <<xs[1]>> \o Insert(Tail(xs), x)

RECURSIVE Sorted(_)
\* sorted(xs)
Sorted(xs) == IF xs = <<>> THEN <<>> ELSE Insert(Sorted(SubSeq(xs, 1, Len(xs) - 1)), xs[Len(xs)])

\* q.strip() for q in questions if q.strip()
StrippedNonBlank(qs) ==
  LET kept == SelectSeq(qs, LAMBDA q : Strip(q) # <<>>)
  IN [k \in 1..Len(kept) |-> Strip(kept[k])]

\* sort_questions without sorted(): the questions in arrival order
sort_questions_unsorted(qs) == StrippedNonBlank(qs)

sort_questions(qs) == Sorted(StrippedNonBlank(qs))

(***************************************************************************)
(* The Router of c.py and of d.py answering batches of questions.          *)
(***************************************************************************)
VARIABLES
  variant,      \* "c" or "d": which of the two routers runs
  adapter,      \* the deterministic model behind the engines
  loaded,       \* the engines the Router has constructed
  questions,    \* the caller's list
  given,        \* the list as the caller built it
  sorted_qs,    \* answer_many's local rebinding of questions
  idx,          \* position of the loop in sorted_qs
  out,          \* answer_many's out
  pc,           \* where the control is
  stages,       \* answer_one: the stages tried for the question, with results
  calls,        \* answer_one: the engine constructions and model calls made
  ans,          \* answer_one: the value returned
  exc,          \* answer_one: the exception raised
  answered_by,  \* answer_one: the stage that returned
  faults,       \* first call: the model failures, each with its position and
                \* whether it left answer_one as an exception
  run,          \* 1 in the first call of answer_many, 2 in the second
  first_out,    \* what the first call returned
  first_questions \* the list the first call was given

routerVars ==
  <<variant, adapter, loaded, questions, given, sorted_qs, idx, out, pc,
    stages, calls, ans, exc, answered_by, faults, run, first_out,
    first_questions>>

\* try_arithmetic applied to one question
VARIABLES
  arith_q,      \* the question
  arith_kind,   \* how the question was built: "expression" or "other"
  arith_ref,    \* the value of the expression the question was built from
  arith_pct,    \* the number of 'A% z B' forms in the expression
  arith_out,    \* what try_arithmetic returned
  arith_pc      \* "ready" before the call, "returned" after it

arithVars == <<arith_q, arith_kind, arith_ref, arith_pct, arith_out, arith_pc>>

\* pll called again and again on one engine
VARIABLES
  given_ids,    \* the token sequence the tokenizer returned
  input_ids,    \* pll: input_ids
  attn,         \* pll: attn
  i,            \* pll: the loop variable, positions counted from 1
  masked,       \* pll: masked
  log_prob_sum, \* pll: log_prob_sum
  count,        \* pll: count
  model_calls,  \* the inputs self.model was called with in this scoring
  pll_value,    \* the value the last pll call returned
  noted,        \* a token sequence and its score, noted by the caller
  scored,       \* the number of pll calls made
  pll_pc        \* "idle", "loop" or "returned"

pllVars ==
  <<given_ids, input_ids, attn, i, masked, log_prob_sum, count, model_calls,
    pll_value, noted, scored, pll_pc>>

\* continuation_logprob (test.py)
VARIABLES
  lm,           \* the causal model loaded at import
  prefix_text,  \* continuation_logprob: prefix_text
  continuation_text, \* continuation_logprob: continuation_text
  prefix_ids,   \* continuation_logprob: prefix_ids
  cont_ids,     \* continuation_logprob: cont_ids
  forward_ids,  \* the input of the forward pass over [prefix][continuation]
  cur_input,    \* continuation_logprob: cur_input
  cont_i,       \* continuation_logprob: the loop variable i
  logp_sum,     \* continuation_logprob: logp_sum
  lm_calls,     \* the inputs the model was called with inside the loop
  logp_terms,   \* the values logp_i added to logp_sum, in order
  cont_value,   \* what continuation_logprob returned
  cont_pc       \* "idle", "called", "loop", "returned" or "raised"

contVars ==
  <<lm, prefix_text, continuation_text, prefix_ids, cont_ids, forward_ids,
    cur_input, cont_i, logp_sum, lm_calls, logp_terms, cont_value, cont_pc>>

\* sample_sequence (pracownia_2/main.py)
VARIABLES
  prompt_ids,        \* sample_sequence: tokenizer(prefix).input_ids
  letter_constraint, \* sample_sequence: letter_constraint
  generated,         \* sample_sequence: generated
  logprobs,          \* sample_sequence: logprobs, each the probability whose
                     \* logarithm was appended
  steps,             \* the number of passes of the loop made
  step_logits,       \* last pass: the weights after the letter penalty
  step_order,        \* last pass: the top-k tokens in the order of torch.sort
  step_kept,         \* last pass: how many of them the nucleus keeps
  text,              \* sample_sequence: text
  samp_pc            \* "idle", "called", "loop", "returned"

sampVars ==
  <<prompt_ids, letter_constraint, generated, logprobs, steps, step_logits,
    step_order, step_kept, text, samp_pc>>

\* the rerankers (pracownia_1/zadanie_1.py, pracownia_2/main.py)
VARIABLES
  rank_fn,      \* "choose_best" or "generate_best_sentence"
  rank_input,   \* the (score, text) pairs in the order they were produced
  rank_sorted,  \* the list after sort(key=lambda x: x[0], reverse=True)
  rank_best,    \* the text returned
  rank_pc       \* "idle", "scored", "returned" or "raised"

rankVars == <<rank_fn, rank_input, rank_sorted, rank_best, rank_pc>>

\* the places where two scores are compared (pracownia_1/d.py, test.py)
VARIABLES
  cmp_site,     \* "yes_no", "ask_capital" or "predict"
  cmp_terms,    \* per item, the log-probabilities the model gave for it
  cmp_scores,   \* the scores handed to the comparison, in item order
  cmp_result,   \* the item the comparison selected, 0 before it ran
  cmp_pc        \* "idle", "scored" or "compared"

cmpVars == <<cmp_site, cmp_terms, cmp_scores, cmp_result, cmp_pc>>

\* main of d.py and c.py reading standard input and printing
VARIABLES
  io_stdin,     \* the lines of standard input that have not arrived yet
  io_data,      \* the lines sys.stdin.read() has taken in
  io_stdout     \* the lines printed on standard output

ioVars == <<io_stdin, io_data, io_stdout>>

\* score_candidate (pracownia_1/zadanie_1.py)
VARIABLES
  cand_user,    \* user_utterance
  cand_text,    \* candidate
  cand_parts,   \* len_score, rep, end_score, jac and role_penalty
  cand_score,   \* the value returned, in thousandths, as a fraction
  cand_pc       \* "idle", "called" or "scored"

candVars == <<cand_user, cand_text, cand_parts, cand_score, cand_pc>>

\* the chat loop (pracownia_1/zadanie_1.py)
VARIABLES
  history,      \* the deque of (speaker, utterance) pairs
  chat_user,    \* user
  chat_prompt,  \* the prompt of the latest generator call
  chat_outs,    \* the generated_text of every returned sequence
  chat_best,    \* best as choose_best returned it
  chat_pc       \* "idle", "input", "prompt", "generated", "chosen", "ended"

chatVars == <<history, chat_user, chat_prompt, chat_outs, chat_best, chat_pc>>

\* MaskedLMEngine.greedy_span (pracownia_1/d.py)
VARIABLES
  span_prefix,      \* prefix
  span_terminator,  \* terminator
  span_max_tokens,  \* max_tokens
  span_cur,         \* cur
  answer_tokens,    \* answer_tokens
  span_rounds,      \* the passes of the loop made so far
  span_templates,   \* the template of every fill_one call
  span_preds,       \* what the pipeline predicted in every call
  span_out,         \* the text returned
  span_pc           \* "idle", "loop", "break" or "returned"

spanVars ==
  <<span_prefix, span_terminator, span_max_tokens, span_cur, answer_tokens,
    span_rounds, span_templates, span_preds, span_out, span_pc>>

\* modify_logits_for_letter_constraint (pracownia_2/main.py) on logits
VARIABLES
  flt_logits,   \* logits as passed in, one whole number per token id
  flt_letter,   \* letter
  flt_out,      \* logits as returned
  flt_pc        \* "idle", "called" or "returned"

fltVars == <<flt_logits, flt_letter, flt_out, flt_pc>>

\* predict / score_opinion (test.py)
VARIABLES
  pred_opinia,      \* predict: opinia
  pred_t,           \* score_opinion: the number of templates gone through
  template_scores,  \* score_opinion: template_scores
  logp_pos_total,   \* score_opinion: logp_pos_total
  logp_neg_total,   \* score_opinion: logp_neg_total
  pred_calls,       \* the calls of continuation_logprob made: (prefix, continuation)
  pred_sc,          \* predict: sc, the dict score_opinion returned
  pred_label,       \* the value predict returned
  pred_pc           \* "idle", "loop" or "returned"

predVars ==
  <<pred_opinia, pred_t, template_scores, logp_pos_total,
    logp_neg_total, pred_calls, pred_sc, pred_label, pred_pc>>

restVars == <<cmpVars, ioVars, candVars, chatVars, spanVars, fltVars, predVars>>

\* Engines a Router holds
Engines(v) == IF v = "d" THEN <<"mlm">> ELSE <<"mlm", "pll_enc", "gen">>

SENTINEL == <<"n", "i", "e", " ", "w", "i", "e", "m">>

\* f"[blad: {e}]"
ErrorAnswer(e) == <<"[", "b", "l_", "a_", "d", ":", " ">> \o e \o <<"]">>

LoadError == <<"l", "o", "a", "d", " ", "f", "a", "i", "l", "e", "d">>
ModelError == <<"m", "o", "d", "e", "l", " ", "f", "a", "i", "l", "e", "d">>

Fault(at, raised) == [at |-> at, raised |-> raised]

\* the positions of the first call whose answer_one raised
RaisedAt == {f.at : f \in {g \in faults : g.raised}}

Stage(name, result) == [stage |-> name, result |-> result]

Call(stage, op) == [stage |-> stage, op |-> op]

CallsOf(stage, ops) == [k \in 1..Len(ops) |-> Call(stage, ops[k])]

\* the question answer_one is working on
CurQ == sorted_qs[idx]

q_clean == normalize_whitespace(CurQ)

\* IsYesNoForm without the lower()
IsYesNoFormCaseSensitive(q) == StartsWith(q, <<"c", "z", "y", " ">>)

\* q_clean.lower().startswith("czy ")
IsYesNoForm(q) == StartsWith(LowerStr(q), <<"c", "z", "y", " ">>)

RECURSIVE SeqsUpTo(_, _)
\* the lists of at most n elements of S
SeqsUpTo(S, n) ==
  IF n = 0 THEN {<<>>}
  ELSE LET shorter == SeqsUpTo(S, n - 1)
       IN shorter \cup {Append(s, x) : s \in {t \in shorter : Len(t) = n - 1}, x \in S}

\* the orderings of the list xs
Orderings(xs) ==
  {[k \in 1..Len(xs) |-> xs[p[k]]] :
     p \in {f \in [1..Len(xs) -> 1..Len(xs)] : \A a, b \in 1..Len(xs) : a # b => f[a] # f[b]}}

\* The questions the batches are drawn from: one per stage, a blank line
\* and a line with surrounding spaces
BatchPool ==
  {<<"I", "l", "e", " ", "t", "o", " ", "2", "+", "2", "?">>, <<"C", "z", "y", " ", "p", "a", "d", "a", "?">>, <<" ", "S", "t", "o", "l", "i", "c", "a", " ", "P", "e", "r", "u", "?",
                                     " ">>, <<"K", "t", "o", " ", "t", "o", "?">>, <<" ", " ">>}

MaxBatch == 2

\* The questions put to the router one at a time
QuestionPool ==
  {<<"I", "l", "e", " ", "t", "o", " ", "2", "+", "2", "?">>, <<"I", "l", "e", " ", " ", "t", "o", " ", "5", "0", "%", " ", "z", " ",
                      "2", "0", "0", "?">>, <<"P", "o", "l", "i", "c", "z", ":", " ", "(", "2", "+", "3", ")", "*",
                                              "4">>,
   <<"I", "l", "e", " ", "t", "o">>, <<"I", "l", "e", " ", "t", "o", " ", "2", "+", "x", "?">>, <<"O", "b", "l", "i", "c", "z", " ", "1", "/", "0">>, <<"I", "l", "e", " ", "t", "o", " ", "(", "2", "+", "3", "?">>,
   <<"C", "z", "y", " ", "p", "a", "d", "a", "?">>, <<"C", "Z", "Y", "\t", "2", "+", "2", " ", "t", "o", " ", "4", "?">>, <<"c", "z", "y", " ", "s", "t", "o", "l", "i", "c", "a", " ", "P", "e",
                                       "r", "u", "?">>,
   <<"J", "a", "k", "a", " ", "j", "e", "s", "t", " ", "s", "t", "o", "l",
     "i", "c", "a", " ", "k", "r", "a", "j", "u", " ", "P", "e", "r",
     "u", "?">>, <<"S", "t", "o", "l", "i", "c", "a", " ", "w", "l_", "o", "c", "h", "?">>,
   <<"S", "t", "o", "l", "i", "c", "a_", " ", "P", "e", "r", "u", " ", "j",
     "e", "s", "t", " ", "?">>, <<"S", "t", "o", "l", "i", "c", "a", " ", "w", " ", "?">>,
   <<"J", "a", "k", " ", "b", "r", "z", "m", "i", " ", "n", "a", "z", "w",
     "a", " ", "t", "e", "r", "e", "n", "o", "w", "e", "j", " ", "L_",
     "a", "d", "y", "?">>,
   <<"J", "a", "k", " ", "n", "a", "z", "y", "w", "a", " ", "s", "i", "e_",
     " ", "p", "o", "j", "e", "d", "y", "n", "c", "z", "y", " ", "e",
     "l", "e", "m", "e", "n", "t", " ", "s", "c", "h", "o", "d", "o_",
     "w", " ", "w", " ", "d", "o", "m", "u", "?">>,
   <<"K", "t", "o", " ", "t", "o", "?">>, <<"I", "l", "e", " ", "n", "o_", "g", " ", "m", "a", " ", "p", "i", "e",
                  "s", "?">>, <<>>,
   <<"K", "t", "o_", "r", "y", " ", "k", "o", "l", "u", "m", "b", "i", "j",
     "s", "k", "i", " ", "p", "i", "s", "a", "r", "z", " ", "1", "9", "2",
     "7", " ", "S", "t", "o", " ", "l", "a", "t", " ", "s", "a", "m", "o",
     "t", "n", "o", "s_", "c", "i", "?">>,
   <<"Z", " ", "k", "t", "o_", "r", "e", "g", "o", " ", "k", "o", "n", "t",
     "y", "n", "e", "n", "t", "u", " ", "p", "o", "c", "h", "o", "d", "z",
     "i", " ", "9", "0", "%", " ", "r", "y", "z_", "u">>}

RouterInit(pool, maxlen) ==
  /\ variant \in {"c", "d"}
  /\ adapter \in Adapters
  /\ loaded = {}
  /\ questions \in SeqsUpTo(pool, maxlen)
  /\ given = questions
  /\ sorted_qs = <<>>
  /\ idx = 0
  /\ out = <<>>
  /\ pc = "idle"
  /\ stages = <<>>
  /\ calls = <<>>
  /\ ans = None
  /\ exc = None
  /\ answered_by = "none"
  /\ faults = {}
  /\ run = 1
  /\ first_out = <<>>
  /\ first_questions = <<>>

\* answer_many up to the loop: d.py constructs its engine first
AnswerMany ==
  /\ pc = "idle"
  /\ loaded' = IF variant = "d" THEN loaded \cup {"mlm"} ELSE loaded
  /\ sorted_qs' = sort_questions(questions)
  /\ idx' = 0
  /\ out' = <<>>
  /\ pc' = "loop"
  /\ UNCHANGED <<arithVars, pllVars, contVars, sampVars, rankVars, restVars>>
  /\ UNCHANGED <<variant, adapter, questions, given, stages, calls, ans, exc,
                 answered_by, faults, run, first_out, first_questions>>

\* d.py: the engine fails to load in self.ensure(device=device), which is
\* outside the try of the loop: the exception leaves answer_many
AnswerManyLoadFails ==
  /\ pc = "idle"
  /\ variant = "d"
  /\ "mlm" \notin loaded
  /\ pc' = "crashed"
  /\ UNCHANGED <<arithVars, pllVars, contVars, sampVars, rankVars, restVars>>
  /\ UNCHANGED <<variant, adapter, loaded, questions, given, sorted_qs, idx, out,
                 stages, calls, ans, exc, answered_by, faults, run,
                 first_out, first_questions>>

\* for q in questions: ... ans = self.answer_one(q) is entered
NextQuestion ==
  /\ pc = "loop"
  /\ idx < Len(sorted_qs)
  /\ idx' = idx + 1
  /\ stages' = <<>>
  /\ calls' = <<>>
  /\ ans' = None
  /\ exc' = None
  /\ answered_by' = "none"
  /\ pc' = "arithmetic"
  /\ UNCHANGED <<arithVars, pllVars, contVars, sampVars, rankVars, restVars>>
  /\ UNCHANGED <<variant, adapter, loaded, questions, given, sorted_qs, out,
                 faults, run, first_out, first_questions>>

\* return out
AnswerManyReturn ==
  /\ pc = "loop"
  /\ idx = Len(sorted_qs)
  /\ pc' = "done"
  /\ first_out' = IF run = 1 THEN out ELSE first_out
  /\ first_questions' = IF run = 1 THEN questions ELSE first_questions
  /\ UNCHANGED <<arithVars, pllVars, contVars, sampVars, rankVars, restVars>>
  /\ UNCHANGED <<variant, adapter, loaded, questions, given, sorted_qs, idx,
                 out, stages, calls, ans, exc, answered_by, faults, run>>

\* the stage after the arithmetic heuristic and the engines are ready
AfterEnsure == IF variant = "d" THEN "yes_no" ELSE "capital"

\* ArithmeticReturned without the test for None: whatever try_arithmetic
\* returned is the answer
ArithmeticReturnedAlways(a) ==
  /\ a # Unmodelled
  /\ stages' = Append(stages, Stage("arithmetic", a))
  /\ ans' = a
  /\ answered_by' = "arithmetic"
  /\ pc' = "return"

\* a = try_arithmetic(q_clean); if a is not None: return a
ArithmeticReturned(a) ==
  /\ a # Unmodelled
  /\ stages' = Append(stages, Stage("arithmetic", a))
  /\ IF a # None
     THEN ans' = a /\ answered_by' = "arithmetic" /\ pc' = "return"
     ELSE pc' = "ensure" /\ UNCHANGED <<ans, answered_by>>

\* TryArithmetic with self.ensure() moved before the heuristic
TryArithmeticAfterEnsure ==
  /\ pc = "arithmetic"
  /\ ArithmeticReturned(try_arithmetic(q_clean))
  /\ loaded' = loaded \cup {e \in {"mlm", "pll_enc", "gen"} : variant = "c" \/ e = "mlm"}
  /\ calls' = calls \o CallsOf("ensure", <<"construct">>)
  /\ UNCHANGED <<arithVars, pllVars, contVars, sampVars, rankVars, restVars>>
  /\ UNCHANGED <<variant, adapter, questions, given, sorted_qs, idx,
                 out, exc, faults, run, first_out, first_questions>>

TryArithmetic ==
  /\ pc = "arithmetic"
  /\ ArithmeticReturned(try_arithmetic(q_clean))
  /\ UNCHANGED <<arithVars, pllVars, contVars, sampVars, rankVars, restVars>>
  /\ UNCHANGED <<variant, adapter, loaded, questions, given, sorted_qs, idx,
                 out, calls, exc, faults, run, first_out, first_questions>>

\* the engines self.ensure() has to construct, in the order it does
Missing == SelectSeq(Engines(variant), LAMBDA e : e \notin loaded)

\* self.ensure() of answer_one
Ensure ==
  /\ pc = "ensure"
  /\ loaded' = loaded \cup {Missing[k] : k \in 1..Len(Missing)}
  /\ calls' = calls \o CallsOf("ensure", [k \in 1..Len(Missing) |-> "construct"])
  /\ pc' = AfterEnsure
  /\ UNCHANGED <<arithVars, pllVars, contVars, sampVars, rankVars, restVars>>
  /\ UNCHANGED <<variant, adapter, questions, given, sorted_qs, idx, out,
                 stages, ans, exc, answered_by, faults, run, first_out,
                 first_questions>>

\* self.ensure() of answer_one: the n-th missing engine fails to load
EnsureFails ==
  /\ pc = "ensure"
  /\ run = 1
  /\ \E n \in 1..Len(Missing) :
       /\ loaded' = loaded \cup {Missing[k] : k \in 1..(n - 1)}
       /\ calls' = calls \o CallsOf("ensure", [k \in 1..n |-> "construct"])
  /\ exc' = LoadError
  /\ pc' = "raise"
  /\ UNCHANGED <<arithVars, pllVars, contVars, sampVars, rankVars, restVars>>
  /\ UNCHANGED <<variant, adapter, questions, given, sorted_qs, idx, out,
                 stages, ans, answered_by, faults, run, first_out,
                 first_questions>>

\* AfterYesNo with the capital patterns of d.py passed over
AfterYesNoSkipsCapital == IF variant = "d" THEN "general" ELSE "generate"

\* the stage after the yes/no test did not match
AfterYesNo == IF variant = "d" THEN "capital" ELSE "generate"

\* the stage after the capital patterns gave no answer
AfterCapital == IF variant = "d" THEN "general" ELSE "yes_no"

\* return self.mlm.yes_no(q_clean)
YesNoReturned(r) ==
  /\ stages' = Append(stages, Stage("yes_no", r.ans))
  /\ calls' = calls \o CallsOf("yes_no", r.calls)
  /\ ans' = r.ans
  /\ answered_by' = "yes_no"
  /\ pc' = "return"

\* if q_clean.lower().startswith("czy "): the two sentences are scored
YesNo ==
  /\ pc = "yes_no"
  /\ IF IsYesNoForm(q_clean)
     THEN YesNoReturned(yes_no(adapter, q_clean))
     ELSE /\ stages' = Append(stages, Stage("yes_no", None))
          /\ pc' = AfterYesNo
          /\ UNCHANGED <<calls, ans, answered_by>>
  /\ UNCHANGED <<arithVars, pllVars, contVars, sampVars, rankVars, restVars>>
  /\ UNCHANGED <<variant, adapter, loaded, questions, given, sorted_qs, idx,
                 out, exc, faults, run, first_out, first_questions>>

\* the model raises in the n-th of the two pll calls
YesNoFails ==
  /\ pc = "yes_no"
  /\ run = 1
  /\ IsYesNoForm(q_clean)
  /\ \E n \in 1..2 : calls' = calls \o CallsOf("yes_no", PllCalls(n))
  /\ exc' = ModelError
  /\ pc' = "raise"
  /\ UNCHANGED <<arithVars, pllVars, contVars, sampVars, rankVars, restVars>>
  /\ UNCHANGED <<variant, adapter, loaded, questions, given, sorted_qs, idx,
                 out, stages, ans, answered_by, faults, run, first_out,
                 first_questions>>

\* d.py: country = m.group(1) cleaned; ans = self.mlm.ask_capital(country)
AskCapitalGroup(g) ==
  IF g = NoMatch THEN Ret(None, <<>>) ELSE ask_capital(adapter, CleanCountry(g))

\* what the capital stage returns when the model does not fail
CapitalResult ==
  IF variant = "c" THEN try_capital(adapter, q_clean, FALSE)
  ELSE AskCapitalGroup(CapitalGroup(q_clean))

\* d.py returns a non-empty answer, c.py any answer that is not None
CapitalAnswers(a) == IF variant = "d" THEN a # None /\ a # <<>> ELSE a # None

CapitalReturned(r) ==
  /\ calls' = calls \o CallsOf("capital", r.calls)
  /\ IF CapitalAnswers(r.ans)
     THEN /\ stages' = Append(stages, Stage("capital", r.ans))
          /\ ans' = r.ans
          /\ answered_by' = "capital"
          /\ pc' = "return"
     ELSE /\ stages' = Append(stages, Stage("capital", None))
          /\ pc' = AfterCapital
          /\ UNCHANGED <<ans, answered_by>>

\* the first of CAPITAL_PATTERNS that matches decides
Capital ==
  /\ pc = "capital"
  /\ CapitalReturned(CapitalResult)
  /\ UNCHANGED <<arithVars, pllVars, contVars, sampVars, rankVars, restVars>>
  /\ UNCHANGED <<variant, adapter, loaded, questions, given, sorted_qs, idx,
                 out, exc, faults, run, first_out, first_questions>>

\* d.py: the exception of the n-th of the calls ask_capital makes leaves
\* answer_one
CapitalRaised(made) ==
  /\ \E n \in 1..Len(made) :
       calls' = calls \o CallsOf("capital", SubSeq(made, 1, n))
  /\ exc' = ModelError
  /\ pc' = "raise"
  /\ UNCHANGED <<stages, faults>>

\* c.py: ask_capital catches the exception of its pipeline call
CapitalSwallowed(r) ==
  /\ r.calls # <<>>
  /\ calls' = calls \o CallsOf("capital", r.calls)
  /\ stages' = Append(stages, Stage("capital", r.ans))
  /\ faults' = faults \cup {Fault(idx, FALSE)}
  /\ pc' = AfterCapital
  /\ UNCHANGED exc

\* the model raises in the n-th call of ask_capital: d.py lets the
\* exception through, c.py calls the pipeline in a try and returns None
CapitalFails ==
  /\ pc = "capital"
  /\ run = 1
  /\ IF variant = "d"
     THEN CapitalRaised(AskCapitalGroup(CapitalGroup(q_clean)).calls)
     ELSE CapitalSwallowed(try_capital(adapter, q_clean, TRUE))
  /\ UNCHANGED <<arithVars, pllVars, contVars, sampVars, rankVars, restVars>>
  /\ UNCHANGED <<variant, adapter, loaded, questions, given, sorted_qs, idx,
                 out, ans, answered_by, run, first_out, first_questions>>

\* a lexicon answer ends answer_general, then the templates, then the
\* generic cloze
StagesFrom(a, lex, tpl) ==
  IF lex # 0 THEN <<Stage("lexicon", a)>>
  ELSE IF tpl # 0 THEN <<Stage("lexicon", None), Stage("template", a)>>
  ELSE <<Stage("lexicon", None), Stage("template", None), Stage("generic", a)>>

StagesOf(a, qs) ==
  StagesFrom(a, FirstPattern(lexicon, qs), FirstPattern(templates, qs))

\* the stages answer_general goes through for r, its result
GeneralStages(r) == StagesOf(r.ans, normalize_whitespace(q_clean))

GeneralLogged(r, tried) ==
  /\ stages' = stages \o tried
  /\ calls' = calls \o CallsOf(tried[Len(tried)].stage, r.calls)
  /\ IF r.ans # None /\ r.ans # <<>>
     THEN ans' = r.ans /\ answered_by' = tried[Len(tried)].stage
     ELSE ans' = SENTINEL /\ answered_by' = "sentinel"

GeneralReturned(r) == GeneralLogged(r, GeneralStages(r))

\* a = self.mlm.answer_general(q_clean); if a: return a; return "nie wiem"
AnswerGeneral ==
  /\ pc = "general"
  /\ GeneralReturned(answer_general(adapter, q_clean))
  /\ pc' = "return"
  /\ UNCHANGED <<arithVars, pllVars, contVars, sampVars, rankVars, restVars>>
  /\ UNCHANGED <<variant, adapter, loaded, questions, given, sorted_qs, idx,
                 out, exc, faults, run, first_out, first_questions>>

\* the stages before the one whose n-th call raises
GeneralBroken(r, tried) ==
  /\ r.calls # <<>>
  /\ stages' = stages \o SubSeq(tried, 1, Len(tried) - 1)
  /\ \E n \in 1..Len(r.calls) :
       calls' = calls \o CallsOf(tried[Len(tried)].stage, SubSeq(r.calls, 1, n))

GeneralRaised(r) == GeneralBroken(r, GeneralStages(r))

\* the model raises in the n-th call of answer_general
AnswerGeneralFails ==
  /\ pc = "general"
  /\ run = 1
  /\ GeneralRaised(answer_general(adapter, q_clean))
  /\ exc' = ModelError
  /\ pc' = "raise"
  /\ UNCHANGED <<arithVars, pllVars, contVars, sampVars, rankVars, restVars>>
  /\ UNCHANGED <<variant, adapter, loaded, questions, given, sorted_qs, idx,
                 out, ans, answered_by, faults, run, first_out, first_questions>>

Generated(r) ==
  /\ calls' = calls \o CallsOf("generate", r.calls)
  /\ IF r.ans # <<>>
     THEN /\ stages' = Append(stages, Stage("generate", r.ans))
          /\ ans' = r.ans
          /\ answered_by' = "generate"
     ELSE /\ stages' = Append(stages, Stage("generate", None))
          /\ ans' = SENTINEL
          /\ answered_by' = "sentinel"

\* return self.gen.generate(q_clean, k_shots=2) or "nie wiem"
Generate ==
  /\ pc = "generate"
  /\ Generated(generate(adapter, q_clean, 2))
  /\ pc' = "return"
  /\ UNCHANGED <<arithVars, pllVars, contVars, sampVars, rankVars, restVars>>
  /\ UNCHANGED <<variant, adapter, loaded, questions, given, sorted_qs, idx,
                 out, exc, faults, run, first_out, first_questions>>

\* the causal model raises
GenerateFails ==
  /\ pc = "generate"
  /\ run = 1
  /\ calls' = calls \o CallsOf("generate", <<"generate">>)
  /\ exc' = ModelError
  /\ pc' = "raise"
  /\ UNCHANGED <<arithVars, pllVars, contVars, sampVars, rankVars, restVars>>
  /\ UNCHANGED <<variant, adapter, loaded, questions, given, sorted_qs, idx,
                 out, stages, ans, answered_by, faults, run, first_out,
                 first_questions>>

\* out.append((q, ans)) after answer_one returned
AppendAnswer ==
  /\ pc = "return"
  /\ out' = Append(out, <<CurQ, ans>>)
  /\ pc' = "loop"
  /\ UNCHANGED <<arithVars, pllVars, contVars, sampVars, rankVars, restVars>>
  /\ UNCHANGED <<variant, adapter, loaded, questions, given, sorted_qs, idx,
                 stages, calls, ans, exc, answered_by, faults, run, first_out,
                 first_questions>>

\* CatchError with the except clause around the loop: the questions after
\* the failing one are dropped
CatchErrorEndsLoop ==
  /\ pc = "raise"
  /\ out' = Append(out, <<CurQ, ErrorAnswer(exc)>>)
  /\ faults' = faults \cup {Fault(idx, TRUE)}
  /\ idx' = Len(sorted_qs)
  /\ pc' = "loop"
  /\ UNCHANGED <<arithVars, pllVars, contVars, sampVars, rankVars, restVars>>
  /\ UNCHANGED <<variant, adapter, loaded, questions, given, sorted_qs,
                 stages, calls, ans, exc, answered_by, run, first_out,
                 first_questions>>

\* except Exception as e: ans = f"[blad: {e}]"; out.append((q, ans))
CatchError ==
  /\ pc = "raise"
  /\ out' = Append(out, <<CurQ, ErrorAnswer(exc)>>)
  /\ faults' = faults \cup {Fault(idx, TRUE)}
  /\ pc' = "loop"
  /\ UNCHANGED <<arithVars, pllVars, contVars, sampVars, rankVars, restVars>>
  /\ UNCHANGED <<variant, adapter, loaded, questions, given, sorted_qs, idx,
                 stages, calls, ans, exc, answered_by, run, first_out,
                 first_questions>>

\* The caller calls answer_many of the same Router again, with the same
\* questions in any order; the models do not fail this time
Rerun ==
  /\ pc = "done"
  /\ run = 1
  /\ run' = 2
  /\ questions' \in Orderings(questions)
  /\ given' = questions'
  /\ pc' = "idle"
  /\ UNCHANGED <<arithVars, pllVars, contVars, sampVars, rankVars, restVars>>
  /\ UNCHANGED <<variant, adapter, loaded, sorted_qs, idx, out, stages,
                 calls, ans, exc, answered_by, faults, first_out, first_questions>>

(***************************************************************************)
(* One engine scoring one token sequence after another with pll.  The      *)
(* statements of pll are the steps; the tokenizer's output is the input.   *)
(***************************************************************************)
\* Ids the tokenizer returns
Vocab == {FirstCharId + 1, FirstCharId + 2}

MaxTokens == 4

MaxScorings == 3

NoScore == [num |-> 0, den |-> 0]

NoNote == [set |-> FALSE, ids |-> <<>>, score |-> NoScore, other |-> FALSE]

\* the Router is not answering
RouterIdle(adapters) ==
  /\ variant = "d"
  /\ adapter \in adapters
  /\ loaded = {"mlm"}
  /\ questions = <<>>
  /\ given = <<>>
  /\ sorted_qs = <<>>
  /\ idx = 0
  /\ out = <<>>
  /\ pc = "none"
  /\ stages = <<>>
  /\ calls = <<>>
  /\ ans = None
  /\ exc = None
  /\ answered_by = "none"
  /\ faults = {}
  /\ run = 1
  /\ first_out = <<>>
  /\ first_questions = <<>>

\* pll is not observed step by step
PllIdle ==
  /\ given_ids = <<>>
  /\ input_ids = <<>>
  /\ attn = <<>>
  /\ i = 0
  /\ masked = <<>>
  /\ log_prob_sum = 0
  /\ count = 0
  /\ model_calls = <<>>
  /\ pll_value = NoScore
  /\ noted = NoNote
  /\ scored = 0
  /\ pll_pc = "idle"

\* PllBegin with the accumulators kept on the engine between calls
PllBeginKeepsSum ==
  /\ pll_pc \in {"idle", "returned"}
  /\ scored < MaxScorings
  /\ \E ids \in SeqsUpTo(Vocab, MaxTokens) :
       /\ given_ids' = ids
       /\ input_ids' = ids
       /\ attn' = AttentionMask(ids)
       /\ noted' = IF noted.set /\ ids # noted.ids
                   THEN [noted EXCEPT !.other = TRUE] ELSE noted
  /\ i' = PllFirst
  /\ masked' = <<>>
  /\ model_calls' = <<>>
  /\ scored' = scored + 1
  /\ pll_pc' = "loop"
  /\ UNCHANGED <<pll_value, log_prob_sum, count>>
  /\ UNCHANGED <<routerVars, arithVars, contVars, sampVars, rankVars, restVars>>

\* pll is entered: tok = self.tokenizer(text) ... count = 0
PllBegin ==
  /\ pll_pc \in {"idle", "returned"}
  /\ scored < MaxScorings
  /\ \E ids \in SeqsUpTo(Vocab, MaxTokens) :
       /\ given_ids' = ids
       /\ input_ids' = ids
       /\ attn' = AttentionMask(ids)
       /\ noted' = IF noted.set /\ ids # noted.ids
                   THEN [noted EXCEPT !.other = TRUE] ELSE noted
  /\ log_prob_sum' = 0
  /\ count' = 0
  /\ i' = PllFirst
  /\ masked' = <<>>
  /\ model_calls' = <<>>
  /\ scored' = scored + 1
  /\ pll_pc' = "loop"
  /\ UNCHANGED pll_value
  /\ UNCHANGED <<routerVars, arithVars, contVars, sampVars, rankVars, restVars>>

\* one pass of the for loop
PllStep ==
  /\ pll_pc = "loop"
  /\ i <= PllLast(input_ids)
  /\ LET acc == PllIter(adapter, input_ids, attn, i,
                        [sum |-> log_prob_sum, count |-> count])
     IN /\ log_prob_sum' = acc.sum
        /\ count' = acc.count
  /\ IF attn[i] = 0
     THEN UNCHANGED <<masked, model_calls>>
     ELSE /\ masked' = MaskAt(input_ids, i)
          /\ model_calls' = Append(model_calls, [input_ids |-> masked', pos |-> i])
  /\ i' = i + 1
  /\ UNCHANGED <<given_ids, input_ids, attn, pll_value, noted, scored, pll_pc>>
  /\ UNCHANGED <<routerVars, arithVars, contVars, sampVars, rankVars, restVars>>

\* return log_prob_sum / max(count, 1)
PllFinish ==
  /\ pll_pc = "loop"
  /\ i > PllLast(input_ids)
  /\ pll_value' = PllReturn(log_prob_sum, count)
  /\ pll_pc' = "returned"
  /\ UNCHANGED <<given_ids, input_ids, attn, i, masked, log_prob_sum, count,
                 model_calls, noted, scored>>
  /\ UNCHANGED <<routerVars, arithVars, contVars, sampVars, rankVars, restVars>>

\* the caller notes the sequence and its score
Note ==
  /\ pll_pc = "returned"
  /\ ~noted.set
  /\ noted' = [set |-> TRUE, ids |-> given_ids, score |-> pll_value, other |-> FALSE]
  /\ UNCHANGED <<given_ids, input_ids, attn, i, masked, log_prob_sum, count,
                 model_calls, pll_value, scored, pll_pc>>
  /\ UNCHANGED <<routerVars, arithVars, contVars, sampVars, rankVars, restVars>>

NextPLL == PllBegin \/ PllStep \/ PllFinish \/ Note

(***************************************************************************)
(* try_arithmetic on questions built from expressions of known value       *)
(***************************************************************************)
MaxLit == 2

BinOps == {"+", "-", "*", "/"}

LitLeaf(n) == [k |-> "lit", a |-> n, b |-> 0]

PctLeaf(a, b) == [k |-> "pct", a |-> a, b |-> b]

\* integer literals and 'A% z B' forms
Leaves == {LitLeaf(n) : n \in 0..MaxLit} \cup {PctLeaf(50, 200), PctLeaf(5, 30)}

\* Expressions of up to three operands: shape 0 is l1, shape 1 is l1 op1 l2,
\* shape 2 is (l1 op1 l2) op2 l3 and shape 3 is l1 op1 (l2 op2 l3)
Expr(shape, op1, op2, l1, l2, l3) ==
  [shape |-> shape, op1 |-> op1, op2 |-> op2, l1 |-> l1, l2 |-> l2, l3 |-> l3]

Exprs ==
  {Expr(0, "+", "+", l1, LitLeaf(0), LitLeaf(0)) : l1 \in Leaves}
    \cup {Expr(1, op1, "+", l1, l2, LitLeaf(0)) :
            op1 \in BinOps, l1 \in Leaves, l2 \in Leaves}
    \cup {Expr(sh, op1, op2, l1, l2, l3) :
            sh \in {2, 3}, op1 \in BinOps, op2 \in BinOps,
            l1 \in Leaves, l2 \in Leaves, l3 \in Leaves}

\* Exact rational arithmetic: the value p/q in lowest terms, or undefined
Rat(p, q) ==
  LET g == Gcd(Abs(p), Abs(q))
  IN [ok |-> TRUE, p |-> (IF q < 0 THEN -p ELSE p) \div g, q |-> Abs(q) \div g]

Undefined == [ok |-> FALSE, p |-> 0, q |-> 1]

RatOp(op, x, y) ==
  IF ~x.ok \/ ~y.ok THEN Undefined
  ELSE CASE op = "+" -> Rat(x.p * y.q + y.p * x.q, x.q * y.q)
         [] op = "-" -> Rat(x.p * y.q - y.p * x.q, x.q * y.q)
         [] op = "*" -> Rat(x.p * y.p, x.q * y.q)
         [] op = "/" -> IF y.p = 0 THEN Undefined ELSE Rat(x.p * y.q, x.q * y.p)

\* A% z B is A hundredths of B
LeafValue(l) == IF l.k = "lit" THEN Rat(l.a, 1) ELSE Rat(l.a * l.b, 100)

\* The value of the expression under the standard precedence
ExprValue(e) ==
  CASE e.shape = 0 -> LeafValue(e.l1)
    [] e.shape = 1 -> RatOp(e.op1, LeafValue(e.l1), LeafValue(e.l2))
    [] e.shape = 2 -> RatOp(e.op2, RatOp(e.op1, LeafValue(e.l1), LeafValue(e.l2)),
                            LeafValue(e.l3))
    [] e.shape = 3 -> RatOp(e.op1, LeafValue(e.l1),
                            RatOp(e.op2, LeafValue(e.l2), LeafValue(e.l3)))

IsPct(l) == IF l.k = "pct" THEN 1 ELSE 0

PctCount(e) ==
  CASE e.shape = 0 -> IsPct(e.l1)
    [] e.shape = 1 -> IsPct(e.l1) + IsPct(e.l2)
    [] OTHER -> IsPct(e.l1) + IsPct(e.l2) + IsPct(e.l3)

LeafText(l) ==
  IF l.k = "lit" THEN IntToStr(l.a)
  ELSE IntToStr(l.a) \o <<"%", " ", "z", " ">> \o IntToStr(l.b)

Additive(op) == op \in {"+", "-"}

\* op between two operands, with blanks around it when spaced
OpText(op, spaced) == IF spaced THEN <<" ", op, " ">> ELSE <<op>>

Paren(t, needed) == IF needed THEN <<"(">> \o t \o <<")">> ELSE t

\* The expression written out; parentheses only where the precedence and
\* the left-to-right grouping need them, unless full
ExprText(e, spaced, full) ==
  LET pair(a, op, b) == a \o OpText(op, spaced) \o b
  IN CASE e.shape = 0 -> LeafText(e.l1)
       [] e.shape = 1 -> pair(LeafText(e.l1), e.op1, LeafText(e.l2))
       [] e.shape = 2 ->
            pair(Paren(pair(LeafText(e.l1), e.op1, LeafText(e.l2)),
                       full \/ (Additive(e.op1) /\ ~Additive(e.op2))),
                 e.op2, LeafText(e.l3))
       [] e.shape = 3 ->
            pair(LeafText(e.l1), e.op1,
                 Paren(pair(LeafText(e.l2), e.op2, LeafText(e.l3)),
                       \/ full
                       \/ Additive(e.op2) /\ ~Additive(e.op1)
                       \/ Additive(e.op2) = Additive(e.op1) /\ e.op1 \in {"-", "/"}))

\* Ways of asking: the trigger phrase as written, the spacing, the end
AskStyles ==
  {[head |-> <<"I", "l", "e", " ", "t", "o", " ">>, spaced |-> FALSE, full |-> FALSE, tail |-> <<"?">>],
   [head |-> <<"p", "o", "l", "i", "c", "z", ":", " ">>, spaced |-> TRUE, full |-> FALSE, tail |-> <<>>],
   [head |-> <<"J", "A", "K", "I", " ", "J", "E", "S", "T", " ", "W", "Y", "N", "I",
               "K", " ">>, spaced |-> FALSE, full |-> TRUE, tail |-> <<" ", "?">>]}

AskText(style, e) == style.head \o ExprText(e, style.spaced, style.full) \o style.tail

\* Questions that are not built from an expression
OtherQuestions ==
  {<<"J", "a", "k", "a", " ", "j", "e", "s", "t", " ", "s", "t", "o", "l",
     "i", "c", "a", " ", "P", "o", "l", "s", "k", "i", "?">>, <<"2", "+", "2">>, <<"C", "z", "y", " ", "2", "+", "2", " ", "t", "o", " ", "4", "?">>,
   <<"K", "t", "o", " ", "p", "o", "l", "i", "c", "z", "y", " ", "2", "+",
     "2", "?">>, <<"i", "l", "e">>, <<>>, <<" ", "I", "l", "e", " ", "t", "o", " ", "2", "+", "2", "?">>, <<"\t", "p", "o", "l", "i", "c", "z", " ", "3", "*", "3">>,
   <<"I", "l", "e", " ", "t", "o">>, <<"I", "l", "e", " ", "t", "o", " ", "2", "+", "x", "?">>, <<"O", "b", "l", "i", "c", "z", " ", "1", "/", "0">>, <<"I", "l", "e", " ", "t", "o", " ", "(", "2", "+", "3", "?">>,
   <<"I", "l", "e", " ", "t", "o", " ", "(", ")", "?">>, <<"P", "o", "l", "i", "c", "z", " ", ".", ".", ".">>,
   <<"I", "l", "e", " ", "t", "o", " ", "1", "/", "3", "0", "0", "0", "0">>}

ArithReady ==
  /\ \/ \E e \in Exprs, style \in AskStyles :
          /\ arith_q = AskText(style, e)
          /\ arith_kind = "expression"
          /\ arith_ref = ExprValue(e)
          /\ arith_pct = PctCount(e)
     \/ /\ arith_q \in OtherQuestions
        /\ arith_kind = "other"
        /\ arith_ref = Undefined
        /\ arith_pct = 0
  /\ arith_out = None
  /\ arith_pc = "ready"

\* The call try_arithmetic(q)
TryArith ==
  /\ arith_pc = "ready"
  /\ arith_out' = try_arithmetic(arith_q)
  /\ arith_out' # Unmodelled
  /\ arith_pc' = "returned"
  /\ UNCHANGED <<arith_q, arith_kind, arith_ref, arith_pct>>
  /\ UNCHANGED <<routerVars, pllVars, contVars, sampVars, rankVars, restVars>>

NextArith == TryArith

\* try_arithmetic is not observed
ArithIdle ==
  /\ arith_q = <<>>
  /\ arith_kind = "none"
  /\ arith_ref = Undefined
  /\ arith_pct = 0
  /\ arith_out = None
  /\ arith_pc = "idle"

(***************************************************************************)
(* continuation_logprob of modele_jezykowe/test.py: log P(continuation |   *)
(* prefix) under the causal model, one call of the model per token         *)
(***************************************************************************)

(***************************************************************************)
(* sample_sequence of modele_jezykowe/pracownia_2/main.py: nucleus         *)
(* sampling with a penalty on words that begin with another letter         *)
(*                                                                         *)
(* A logit is modelled by its weight exp(logit), so that softmax is the    *)
(* weight divided by the sum of the weights.  With E = exp(20), the        *)
(* factor of forbidden_penalty, a weight is c2*E*E + c1*E + c0 with whole  *)
(* coefficients far below E (about 4.85e8): weights are added coefficient  *)
(* by coefficient and compared lexicographically.  All weights of a step   *)
(* are written in units of 1/E, which softmax does not see.                *)
(***************************************************************************)

(***************************************************************************)
(* The rerankers: choose_best of pracownia_1/zadanie_1.py and the end of   *)
(* generate_best_sentence of pracownia_2/main.py                           *)
(***************************************************************************)

\* The causal models the scorer is run with
NumModels == 3

Models == 0..(NumModels - 1)

\* tokenizer(text, add_special_tokens=False)["input_ids"]: one id per
\* character, no boundary tokens
encode(s) == [k \in 1..Len(s) |-> TokenId(s[k])]

\* F.log_softmax(model(input_ids=context).logits[:, -1, :])[tok] as a whole
\* number of nats; model 0 is indifferent between all tokens
NextLogProb(model, context, tok) ==
  -(1 + ((model * (SumSeq(context) + 2 * Len(context) + 3 * tok)) % 5))

MaxPrefixLen == 2

MaxContLen == 3

ContAlphabet == {"a", "b"}

\* continuation_logprob is about to be called
ContReady ==
  /\ prefix_text \in SeqsUpTo(ContAlphabet, MaxPrefixLen)
  /\ continuation_text \in SeqsUpTo(ContAlphabet, MaxContLen)
  /\ prefix_ids = <<>>
  /\ cont_ids = <<>>
  /\ forward_ids = <<>>
  /\ cur_input = <<>>
  /\ cont_i = 0
  /\ logp_sum = 0
  /\ lm_calls = <<>>
  /\ logp_terms = <<>>
  /\ cont_value = 0
  /\ cont_pc = "called"

\* continuation_logprob is not observed
ContIdle(models) ==
  /\ lm \in models
  /\ prefix_text = <<>>
  /\ continuation_text = <<>>
  /\ prefix_ids = <<>>
  /\ cont_ids = <<>>
  /\ forward_ids = <<>>
  /\ cur_input = <<>>
  /\ cont_i = 0
  /\ logp_sum = 0
  /\ lm_calls = <<>>
  /\ logp_terms = <<>>
  /\ cont_value = 0
  /\ cont_pc = "idle"

\* the tokenizer calls, the forward pass over the whole input and the
\* initialisation of the loop; the model cannot be run on an empty input
ContBegin ==
  /\ cont_pc = "called"
  /\ prefix_ids' = encode(prefix_text)
  /\ cont_ids' = encode(continuation_text)
  /\ forward_ids' = prefix_ids' \o cont_ids'
  /\ cont_pc' = IF forward_ids' = <<>> THEN "raised" ELSE "loop"
  /\ logp_sum' = 0
  /\ cur_input' = prefix_ids'
  /\ cont_i' = 0
  /\ UNCHANGED <<lm, prefix_text, continuation_text, lm_calls, logp_terms,
                 cont_value>>
  /\ UNCHANGED <<routerVars, arithVars, pllVars, sampVars, rankVars, restVars>>

\* ContFeed with the token the model prefers in place of the expected one
ContFeedsModelChoice ==
  Append(cur_input,
         CHOOSE t \in {TokenId(c) : c \in ContAlphabet} :
           \A u \in {TokenId(c) : c \in ContAlphabet} :
             \/ NextLogProb(lm, cur_input, t) > NextLogProb(lm, cur_input, u)
             \/ (NextLogProb(lm, cur_input, t) = NextLogProb(lm, cur_input, u) /\ t >= u))

\* torch.cat([cur_input, token_i.view(1, -1)], dim=1)
ContFeed == Append(cur_input, cont_ids[cont_i + 1])

\* One pass of the loop: the model on cur_input, the log-probability of the
\* expected token, the expected token appended to cur_input
ContStep ==
  /\ cont_pc = "loop"
  /\ cont_i < Len(cont_ids)
  /\ cur_input # <<>>
  /\ lm_calls' = Append(lm_calls, cur_input)
  /\ logp_terms' = Append(logp_terms, NextLogProb(lm, cur_input, cont_ids[cont_i + 1]))
  /\ logp_sum' = logp_sum + NextLogProb(lm, cur_input, cont_ids[cont_i + 1])
  /\ cur_input' = ContFeed
  /\ cont_i' = cont_i + 1
  /\ UNCHANGED <<lm, prefix_text, continuation_text, prefix_ids, cont_ids,
                 forward_ids, cont_value, cont_pc>>
  /\ UNCHANGED <<routerVars, arithVars, pllVars, sampVars, rankVars, restVars>>

\* The model is called on an empty cur_input: the prefix had no token
ContStepFails ==
  /\ cont_pc = "loop"
  /\ cont_i < Len(cont_ids)
  /\ cur_input = <<>>
  /\ lm_calls' = Append(lm_calls, cur_input)
  /\ cont_pc' = "raised"
  /\ UNCHANGED <<lm, prefix_text, continuation_text, prefix_ids, cont_ids,
                 forward_ids, cur_input, cont_i, logp_sum, logp_terms,
                 cont_value>>
  /\ UNCHANGED <<routerVars, arithVars, pllVars, sampVars, rankVars, restVars>>

\* return float(logp_sum)
ContReturn ==
  /\ cont_pc = "loop"
  /\ cont_i = Len(cont_ids)
  /\ cont_value' = logp_sum
  /\ cont_pc' = "returned"
  /\ UNCHANGED <<lm, prefix_text, continuation_text, prefix_ids, cont_ids,
                 forward_ids, cur_input, cont_i, logp_sum, lm_calls,
                 logp_terms>>
  /\ UNCHANGED <<routerVars, arithVars, pllVars, sampVars, rankVars, restVars>>

NextCont == ContBegin \/ ContStep \/ ContStepFails \/ ContReturn

TOP_K == 3

MAX_NEW_TOKENS == 3

TopPNum == 9

TopPDen == 10

Terminals == {<<".">>, <<"!">>, <<"?">>}

PromptPool == {<<3>>, <<3, 1>>}

Letters == {"m", "k"}

\* tokenizer.decode([tok_id]) for the ids of the vocabulary
TokenText ==
  <<<<" ", "m", "a">>, <<" ", "K", "o", "t">>, <<"r", "y">>, <<".">>,
    <<" ">>, <<" ", "M", "a">>, <<"!">>>>

VocabIds == 1..Len(TokenText)

RECURSIVE decode(_)
\* tokenizer.decode(ids)
decode(ids) == IF ids = <<>> THEN <<>> ELSE TokenText[Head(ids)] \o decode(Tail(ids))

Wt(c2, c1, c0) == [c2 |-> c2, c1 |-> c1, c0 |-> c0]

WtZero == Wt(0, 0, 0)

WtAdd(a, b) == Wt(a.c2 + b.c2, a.c1 + b.c1, a.c0 + b.c0)

WtScale(k, a) == Wt(k * a.c2, k * a.c1, k * a.c0)

\* a < b
WtLess(a, b) ==
  \/ a.c2 < b.c2
  \/ a.c2 = b.c2 /\ a.c1 < b.c1
  \/ a.c2 = b.c2 /\ a.c1 = b.c1 /\ a.c0 < b.c0

\* exp of the model's logits, hi*E + lo for each token of the vocabulary
RawTables ==
  <<<<Wt(0, 0, 5), Wt(0, 0, 4), Wt(0, 0, 3), Wt(0, 0, 2), Wt(0, 0, 1), Wt(0, 0, 1), Wt(0, 0, 1)>>,
    <<Wt(0, 0, 1), Wt(0, 0, 1), Wt(0, 0, 36), Wt(0, 0, 1), Wt(0, 0, 2), Wt(0, 0, 1), Wt(0, 0, 2)>>,
    <<Wt(0, 0, 1), Wt(0, 30, 0), Wt(0, 0, 1), Wt(0, 0, 1), Wt(0, 0, 1), Wt(0, 0, 1), Wt(0, 0, 1)>>,
    <<Wt(0, 0, 2), Wt(0, 0, 6), Wt(0, 0, 1), Wt(0, 0, 8), Wt(0, 0, 1), Wt(0, 0, 2), Wt(0, 0, 1)>>>>

\* model(generated).logits[:, -1, :][0] is one of the tables, chosen by the
\* model and the tokens generated so far
LogitsIndex(model, ids) == 1 + ((model + Len(ids) + ids[Len(ids)]) % Len(RawTables))

\* exp(model(generated).logits[:, -1, :][0])
RawLogits(model, ids) == RawTables[LogitsIndex(model, ids)]

\* Forbidden with the first letter compared as it is written
ForbiddenCaseSensitive(tok_str, letter) ==
  /\ StartsWith(tok_str, <<" ">>)
  /\ Len(Strip(tok_str)) > 0
  /\ Strip(tok_str)[1] # letter

\* the token starts a new word with another letter than the required one
Forbidden(tok_str, letter) ==
  /\ StartsWith(tok_str, <<" ">>)
  /\ Len(Strip(tok_str)) > 0
  /\ LowerStr(<<Strip(tok_str)[1]>>) # LowerStr(<<letter>>)

\* logits[tok_id] += forbidden_penalty, in units of 1/E: the weight of a
\* forbidden token stays, every other weight is multiplied by E
Penalised(w, forbidden) == IF forbidden THEN w ELSE Wt(w.c1, w.c0, 0)

modify_logits_for_letter_constraint(logits, letter) ==
  [tok_id \in VocabIds |-> Penalised(logits[tok_id], Forbidden(TokenText[tok_id], letter))]

\* order lists top_k distinct tokens, highest weight first, and no token
\* left out has a higher weight than a listed one: a result torch.topk
\* followed by torch.sort(descending=True) can give
IsTopOrder(logits, order) ==
  /\ \A a, b \in 1..Len(order) : a < b =>
       /\ order[a] # order[b]
       /\ ~WtLess(logits[order[a]], logits[order[b]])
  /\ \A t \in VocabIds :
       (\A a \in 1..Len(order) : order[a] # t)
         => ~WtLess(logits[order[Len(order)]], logits[t])

\* a selection that ignores the logits: any TOP_K tokens in any order
AnyOrders(logits) == [1..TOP_K -> VocabIds]

\* the tokens not yet selected whose logit no other such token exceeds
Highest(logits, order) ==
  {t \in VocabIds \ {order[k] : k \in 1..Len(order)} :
     \A u \in VocabIds \ {order[k] : k \in 1..Len(order)} :
       ~WtLess(logits[t], logits[u])}

RECURSIVE TopOrdersFrom(_, _)
\* the selections that begin with order
TopOrdersFrom(logits, order) ==
  IF Len(order) = TOP_K THEN {order}
  ELSE UNION {TopOrdersFrom(logits, Append(order, t)) : t \in Highest(logits, order)}

\* what torch.topk followed by torch.sort(descending=True) can give: the
\* highest logit first, ties in any order
TopOrders(logits) == TopOrdersFrom(logits, <<>>)

RECURSIVE WtSum(_, _, _)
\* the sum of the weights of order[1..n]
WtSum(logits, order, n) ==
  IF n = 0 THEN WtZero ELSE WtAdd(WtSum(logits, order, n - 1), logits[order[n]])

\* cumulative[n] > TOP_P for the softmax over the top-k tokens
ExceedsTopP(logits, order, n) ==
  WtLess(WtScale(TopPNum, WtSum(logits, order, Len(order))),
         WtScale(TopPDen, WtSum(logits, order, n)))

\* the cumulative probability of order[1..n] under the softmax over the
\* top-k tokens is at least TOP_P
AtLeastTopP(logits, order, n) ==
  ~WtLess(WtScale(TopPDen, WtSum(logits, order, n)),
          WtScale(TopPNum, WtSum(logits, order, Len(order))))

RECURSIVE FirstReaching(_, _, _)
\* a cutoff at the first position whose cumulative probability is at least
\* TOP_P: cumulative >= TOP_P in place of cumulative > TOP_P
FirstReaching(logits, order, n) ==
  IF n > Len(order) THEN Len(order)
  ELSE IF AtLeastTopP(logits, order, n) THEN n
  ELSE FirstReaching(logits, order, n + 1)

RECURSIVE FirstExceeding(_, _, _)
\* first_index + 1: the first position whose cumulative probability is
\* above TOP_P; every position when there is none
FirstExceeding(logits, order, n) ==
  IF n > Len(order) THEN Len(order)
  ELSE IF ExceedsTopP(logits, order, n) THEN n
  ELSE FirstExceeding(logits, order, n + 1)

\* the probability of the token at position n among the top-k tokens,
\* without the renormalisation after top-p
ProbBeforeTopP(logits, order, kept, n) ==
  [num |-> logits[order[n]], den |-> WtSum(logits, order, Len(order))]

\* the probability softmax(final_logits) gives to the token at position n
FinalProb(logits, order, kept, n) ==
  [num |-> logits[order[n]], den |-> WtSum(logits, order, kept)]

\* sample_sequence is about to be called
SampleReady ==
  /\ prompt_ids \in PromptPool
  /\ letter_constraint \in Letters
  /\ generated = <<>>
  /\ logprobs = <<>>
  /\ steps = 0
  /\ step_logits = <<>>
  /\ step_order = <<>>
  /\ step_kept = 0
  /\ text = <<>>
  /\ samp_pc = "called"

\* sample_sequence is not observed
SampleIdle ==
  /\ prompt_ids = <<>>
  /\ letter_constraint = "m"
  /\ generated = <<>>
  /\ logprobs = <<>>
  /\ steps = 0
  /\ step_logits = <<>>
  /\ step_order = <<>>
  /\ step_kept = 0
  /\ text = <<>>
  /\ samp_pc = "idle"

\* generated = input_ids; logprobs = []
SampleBegin ==
  /\ samp_pc = "called"
  /\ generated' = prompt_ids
  /\ logprobs' = <<>>
  /\ samp_pc' = "loop"
  /\ UNCHANGED <<prompt_ids, letter_constraint, steps, step_logits,
                 step_order, step_kept, text>>
  /\ UNCHANGED <<routerVars, arithVars, pllVars, contVars, rankVars, restVars>>

\* Sampling without the break on a sentence-terminal token
SamplingNeverBreaks == samp_pc = "loop" /\ steps < MAX_NEW_TOKENS

\* the loop goes on: fewer than MAX_NEW_TOKENS passes made and no break
Sampling ==
  /\ samp_pc = "loop"
  /\ steps < MAX_NEW_TOKENS
  /\ (steps > 0 => TokenText[generated[Len(generated)]] \notin Terminals)

\* the rest of a pass once the token at position n of order was drawn
Sampled(logits, order, kept, n) ==
  /\ step_logits' = logits
  /\ step_order' = order
  /\ step_kept' = kept
  /\ logprobs' = Append(logprobs, FinalProb(logits, order, kept, n))
  /\ generated' = Append(generated, order[n])
  /\ steps' = steps + 1

\* torch.multinomial draws one of the tokens the nucleus keeps
Multinomial(logits, order, kept) ==
  \E n \in 1..kept : Sampled(logits, order, kept, n)

\* top-k, then top-p, then the draw, on the penalised logits of the pass
Truncated(logits) ==
  \E order \in TopOrders(logits) :
    \E kept \in {FirstExceeding(logits, order, 1)} :
      Multinomial(logits, order, kept)

\* One pass of the loop of sample_sequence
SampleStep ==
  /\ Sampling
  /\ \E logits \in {modify_logits_for_letter_constraint(
                       RawLogits(lm, generated), letter_constraint)} :
       Truncated(logits)
  /\ UNCHANGED <<prompt_ids, letter_constraint, text, samp_pc>>
  /\ UNCHANGED <<routerVars, arithVars, pllVars, contVars, rankVars, restVars>>

\* text = tokenizer.decode(generated[0]); return text, logprobs
SampleReturn ==
  /\ samp_pc = "loop"
  /\ ~Sampling
  /\ text' = decode(generated)
  /\ samp_pc' = "returned"
  /\ UNCHANGED <<prompt_ids, letter_constraint, generated, logprobs, steps,
                 step_logits, step_order, step_kept>>
  /\ UNCHANGED <<routerVars, arithVars, pllVars, contVars, rankVars, restVars>>

NextSample == SampleBegin \/ SampleStep \/ SampleReturn

MaxCandidates == 3

MaxScore == 2

CandidateTexts == {<<"a">>, <<"b">>, <<"c">>}

ScoredPairs == {<<s, t>> : s \in 0..MaxScore, t \in CandidateTexts}

\* xs with x put behind every element whose key is not below x's key
InsertByKey(xs, x) ==
  LET n == Cardinality({k \in 1..Len(xs) : xs[k][1] >= x[1]})
  IN SubSeq(xs, 1, n) \o <<x>> \o SubSeq(xs, n + 1, Len(xs))

RECURSIVE SortByKeyFrom(_, _, _)
SortByKeyFrom(xs, k, acc) ==
  IF k > Len(xs) THEN acc ELSE SortByKeyFrom(xs, k + 1, InsertByKey(acc, xs[k]))

\* the sorted list turned round: ascending keys
SortAscending(xs) ==
  LET s == SortByKeyFrom(xs, 1, <<>>) IN [k \in 1..Len(s) |-> s[Len(s) + 1 - k]]

\* list.sort(key=lambda x: x[0], reverse=True): descending keys, equal keys
\* in their original order
SortByKeyReverse(xs) == SortByKeyFrom(xs, 1, <<>>)

\* the candidates are scored and about to be sorted
RankReady ==
  /\ rank_fn \in {"choose_best", "generate_best_sentence"}
  /\ rank_input \in SeqsUpTo(ScoredPairs, MaxCandidates)
  /\ rank_sorted = <<>>
  /\ rank_best = <<>>
  /\ rank_pc = "scored"

\* no reranker is observed
RankIdle ==
  /\ rank_fn = "none"
  /\ rank_input = <<>>
  /\ rank_sorted = <<>>
  /\ rank_best = <<>>
  /\ rank_pc = "idle"

\* scored.sort(...); return scored[0][1], scored
RankReturn ==
  /\ rank_pc = "scored"
  /\ rank_input # <<>>
  /\ rank_sorted' = SortByKeyReverse(rank_input)
  /\ rank_best' = rank_sorted'[1][2]
  /\ rank_pc' = "returned"
  /\ UNCHANGED <<rank_fn, rank_input>>
  /\ UNCHANGED <<routerVars, arithVars, pllVars, contVars, sampVars, restVars>>

\* scored[0] of an empty list
RankFails ==
  /\ rank_pc = "scored"
  /\ rank_input = <<>>
  /\ rank_sorted' = <<>>
  /\ rank_pc' = "raised"
  /\ UNCHANGED <<rank_fn, rank_input, rank_best>>
  /\ UNCHANGED <<routerVars, arithVars, pllVars, contVars, sampVars, restVars>>

NextRank == RankReturn \/ RankFails

(***************************************************************************)
(* The comparisons of scores: Router.yes_no and Router.ask_capital         *)
(* (pracownia_1/d.py), predict (test.py)                                   *)
(***************************************************************************)
\* a Python float: a fraction num/den, nan or -inf
Float(k, num, den) == [k |-> k, num |-> num, den |-> den]

Finite(n) == Float("fin", n, 1)

NaN == Float("nan", 0, 1)

NegInf == Float("-inf", 0, 1)

\* math.isfinite(x)
IsFinite(x) == x.k = "fin"

\* one entry of log_softmax(logits): below zero when the logits are finite,
\* -inf for a logit of -inf, nan when a logit is nan or +inf
LogSoftmaxValues == {Finite(-2), Finite(-1), NegInf, NaN}

\* the most tokens scored for one item
MaxTerms == 2

TermLists == SeqsUpTo(LogSoftmaxValues, MaxTerms)

\* x + y
FloatAdd(x, y) ==
  IF x.k = "nan" \/ y.k = "nan" THEN NaN
  ELSE IF x.k = "-inf" \/ y.k = "-inf" THEN NegInf
  ELSE Float("fin", x.num * y.den + y.num * x.den, x.den * y.den)

RECURSIVE FloatSumFrom(_, _)
\* total = acc; for x in terms: total += x
FloatSumFrom(acc, terms) ==
  IF terms = <<>> THEN acc
  ELSE FloatSumFrom(FloatAdd(acc, Head(terms)), Tail(terms))

\* x / n for a whole number n > 0
FloatOver(x, n) == Float(x.k, x.num, x.den * n)

\* x > y
FloatGreater(x, y) ==
  /\ x.k = "fin"
  /\ y.k # "nan"
  /\ y.k = "fin" => x.num * y.den > y.num * x.den

\* x == y
FloatEqual(x, y) ==
  /\ x.k # "nan" /\ y.k # "nan"
  /\ x.k = y.k
  /\ x.k = "fin" => x.num * y.den = y.num * x.den

\* PllAdapter.pll: log_prob_sum / max(count, 1)
PllOf(terms) == FloatOver(FloatSumFrom(Finite(0), terms), Max(Len(terms), 1))

\* score_opinion: the total of continuation_logprob over the templates
TotalOf(terms) == FloatSumFrom(Finite(0), terms)

CmpSites == {"yes_no", "ask_capital", "predict"}

CmpReady ==
  /\ cmp_site \in CmpSites
  /\ cmp_terms \in TermLists \X TermLists
  /\ cmp_scores = <<>>
  /\ cmp_result = 0
  /\ cmp_pc = "called"

CmpIdle ==
  /\ cmp_site = "none"
  /\ cmp_terms = <<>>
  /\ cmp_scores = <<>>
  /\ cmp_result = 0
  /\ cmp_pc = "idle"

CmpFrame ==
  UNCHANGED <<routerVars, arithVars, pllVars, contVars, sampVars, rankVars, ioVars,
             candVars, chatVars, spanVars, fltVars, predVars>>

\* s_yes = self.pll(...); s_no = self.pll(...), and likewise the scores of
\* the cloze candidates and the two totals of score_opinion
CmpScore ==
  /\ cmp_pc = "called"
  /\ cmp_scores' =
       IF cmp_site = "predict"
       THEN <<TotalOf(cmp_terms[1]), TotalOf(cmp_terms[2])>>
       ELSE <<PllOf(cmp_terms[1]), PllOf(cmp_terms[2])>>
  /\ cmp_pc' = "scored"
  /\ UNCHANGED <<cmp_site, cmp_terms, cmp_result>>
  /\ CmpFrame

\* return "Tak" if s_yes > s_no else "Nie"
CmpYesNo ==
  /\ cmp_pc = "scored"
  /\ cmp_site = "yes_no"
  /\ cmp_result' = IF FloatGreater(cmp_scores[1], cmp_scores[2]) THEN 1 ELSE 2
  /\ cmp_pc' = "compared"
  /\ UNCHANGED <<cmp_site, cmp_terms, cmp_scores>>
  /\ CmpFrame

\* (s1, c1) < (s2, c2) for tuples of a float and a string
TupleLess(s1, s2, text_less) ==
  IF FloatEqual(s1, s2) THEN text_less ELSE FloatGreater(s2, s1)

\* scored.sort(reverse=True); return scored[0][1]: of two pairs the second
\* comes first exactly when the first compares below it
CmpCapital ==
  /\ cmp_pc = "scored"
  /\ cmp_site = "ask_capital"
  /\ \E text_less \in BOOLEAN :
       cmp_result' =
         IF TupleLess(cmp_scores[1], cmp_scores[2], text_less) THEN 2 ELSE 1
  /\ cmp_pc' = "compared"
  /\ UNCHANGED <<cmp_site, cmp_terms, cmp_scores>>
  /\ CmpFrame

\* return "pos" if sc["logp_pos"] > sc["logp_neg"] else "neg"
CmpPredict ==
  /\ cmp_pc = "scored"
  /\ cmp_site = "predict"
  /\ cmp_result' = IF FloatGreater(cmp_scores[1], cmp_scores[2]) THEN 1 ELSE 2
  /\ cmp_pc' = "compared"
  /\ UNCHANGED <<cmp_site, cmp_terms, cmp_scores>>
  /\ CmpFrame

NextCmp == CmpScore \/ CmpYesNo \/ CmpCapital \/ CmpPredict

(***************************************************************************)
(* main of d.py and c.py without --in and --out: read_questions(None),     *)
(* Router.answer_many, write_answers(None, pairs)                          *)
(***************************************************************************)
\* qs = [line.strip() for line in data.splitlines() if line.strip()]
read_questions(data) == StrippedNonBlank(data)

\* f"{q}\t{a}" for every pair
AnswerLines(pairs) ==
  [k \in 1..Len(pairs) |-> pairs[k][1] \o <<"\t">> \o pairs[k][2]]

\* print("\n".join(lines)): the lines standard output receives; print of
\* the empty string is one empty line
Printed(lines) == IF lines = <<>> THEN << <<>> >> ELSE lines

IoReady ==
  /\ io_stdin \in SeqsUpTo(BatchPool, MaxBatch)
  /\ io_data = <<>>
  /\ io_stdout = <<>>

IoIdle ==
  /\ io_stdin = <<>>
  /\ io_data = <<>>
  /\ io_stdout = <<>>

\* the Router before main has read anything
RouterAtStdin ==
  /\ variant \in {"c", "d"}
  /\ adapter \in Adapters
  /\ loaded = {}
  /\ questions = <<>>
  /\ given = <<>>
  /\ sorted_qs = <<>>
  /\ idx = 0
  /\ out = <<>>
  /\ pc = "stdin"
  /\ stages = <<>>
  /\ calls = <<>>
  /\ ans = None
  /\ exc = None
  /\ answered_by = "none"
  /\ faults = {}
  /\ run = 1
  /\ first_out = <<>>
  /\ first_questions = <<>>

IoFrame ==
  UNCHANGED <<arithVars, pllVars, contVars, sampVars, rankVars, cmpVars,
              candVars, chatVars, spanVars, fltVars, predVars>>

\* sys.stdin.read() blocks while lines arrive
ReadLine ==
  /\ pc = "stdin"
  /\ io_stdin # <<>>
  /\ io_data' = Append(io_data, Head(io_stdin))
  /\ io_stdin' = Tail(io_stdin)
  /\ UNCHANGED <<io_stdout, routerVars>>
  /\ IoFrame

\* ReadAll returning at the first line instead of at end of input
ReadAllFirstLine ==
  /\ pc = "stdin"
  /\ io_data # <<>> \/ io_stdin = <<>>
  /\ questions' = read_questions(io_data)
  /\ given' = questions'
  /\ pc' = "idle"
  /\ UNCHANGED <<io_stdin, io_data, io_stdout>>
  /\ UNCHANGED <<variant, adapter, loaded, sorted_qs, idx, out, stages, calls,
                 ans, exc, answered_by, faults, run, first_out, first_questions>>
  /\ IoFrame

\* end of input (Ctrl+D): sys.stdin.read() returns, qs is built and
\* main goes on to Router().answer_many(qs)
ReadAll ==
  /\ pc = "stdin"
  /\ io_stdin = <<>>
  /\ questions' = read_questions(io_data)
  /\ given' = questions'
  /\ pc' = "idle"
  /\ UNCHANGED <<io_stdin, io_data, io_stdout>>
  /\ UNCHANGED <<variant, adapter, loaded, sorted_qs, idx, out, stages, calls,
                 ans, exc, answered_by, faults, run, first_out, first_questions>>
  /\ IoFrame

\* write_answers(None, pairs) after answer_many returned
WriteAnswers ==
  /\ pc = "done"
  /\ io_stdout' = Printed(AnswerLines(out))
  /\ pc' = "exit"
  /\ UNCHANGED <<io_stdin, io_data>>
  /\ UNCHANGED <<variant, adapter, loaded, questions, given, sorted_qs, idx,
                 out, stages, calls, ans, exc, answered_by, faults, run,
                 first_out, first_questions>>
  /\ IoFrame

NextIO ==
  \/ ReadLine
  \/ ReadAll
  \/ AnswerMany
  \/ AnswerManyLoadFails
  \/ NextQuestion
  \/ AnswerManyReturn
  \/ TryArithmetic
  \/ Ensure
  \/ EnsureFails
  \/ YesNo
  \/ YesNoFails
  \/ Capital
  \/ CapitalFails
  \/ AnswerGeneral
  \/ AnswerGeneralFails
  \/ Generate
  \/ GenerateFails
  \/ AppendAnswer
  \/ CatchError
  \/ WriteAnswers

(***************************************************************************)
(* score_candidate of pracownia_1/zadanie_1.py, in thousandths             *)
(***************************************************************************)
\* the characters \w matches
IsWordChar(c) ==
  \/ IsDigit(c)
  \/ c = "_"
  \/ \E k \in 1..Len(LowerChars) : LowerChars[k] = c \/ UpperChars[k] = c

RECURSIVE WordsFrom(_, _, _)
\* re.findall(r"\w+", s): word is the run of word characters being read
WordsFrom(s, word, found) ==
  IF s = <<>> THEN IF word = <<>> THEN found ELSE Append(found, word)
  ELSE IF IsWordChar(Head(s)) THEN WordsFrom(Tail(s), Append(word, Head(s)), found)
  ELSE WordsFrom(Tail(s), <<>>, IF word = <<>> THEN found ELSE Append(found, word))

\* re.findall(r"\w+", s.lower())
Words(s) == WordsFrom(LowerStr(s), <<>>, <<>>)

\* set(tokens)
WordSet(s) == {Words(s)[k] : k \in 1..Len(Words(s))}

\* repetition_ratio: unique / len(tokens), 1.0 without tokens
repetition_ratio(txt) ==
  IF Words(txt) = <<>> THEN [num |-> 1, den |-> 1]
  ELSE [num |-> Cardinality(WordSet(txt)), den |-> Len(Words(txt))]

\* jaccard_sim: len(A & B) / len(A | B), 0.0 when either set is empty
jaccard_sim(a, b) ==
  IF WordSet(a) = {} \/ WordSet(b) = {} THEN [num |-> 0, den |-> 1]
  ELSE [num |-> Cardinality(WordSet(a) \cap WordSet(b)),
        den |-> Cardinality(WordSet(a) \cup WordSet(b))]

\* lit in s
Contains(s, lit) == FindFrom(s, lit, 1) # 0

USER_MARK == <<"U", "S", "E", "R", ":">>

BOT_MARK == <<"B", "O", "T", ":">>

\* role_penalty with both markers looked for in txt[5:] only
role_penalty_after_5(txt) ==
  IF Contains(DropFirst(txt, 5), USER_MARK) \/ Contains(DropFirst(txt, 5), BOT_MARK)
  THEN -500 ELSE 0

\* -0.5 if "USER:" in txt or "BOT:" in txt[5:] else 0.0
role_penalty(txt) ==
  IF Contains(txt, USER_MARK) \/ Contains(DropFirst(txt, 5), BOT_MARK)
  THEN -500 ELSE 0

\* -0.002 * max(0, length - 120) + (0.2 if 25 <= length <= 160 else 0.0)
len_score(length) ==
  -2 * Max(0, length - 120) + (IF 25 <= length /\ length <= 160 THEN 200 ELSE 0)

\* 0.2 if re.search(r"[.?!]$", txt) else 0.0
end_score(txt) ==
  IF txt # <<>> /\ txt[Len(txt)] \in {".", "?", "!"} THEN 200 ELSE 0

\* the five parts of the score of txt = candidate.strip()
ScoreParts(user_utterance, txt) ==
  [len |-> len_score(Len(txt)),
   rep |-> repetition_ratio(txt),
   end |-> end_score(txt),
   jac |-> jaccard_sim(user_utterance, txt),
   role |-> role_penalty(txt)]

\* len_score + 0.6 * rep + end_score + 0.6 * jac + role_penalty
ScoreTotal(parts) ==
  [num |-> (parts.len + parts.end + parts.role) * parts.rep.den * parts.jac.den
           + 600 * parts.rep.num * parts.jac.den
           + 600 * parts.jac.num * parts.rep.den,
   den |-> parts.rep.den * parts.jac.den]

score_candidate(user_utterance, candidate) ==
  ScoreTotal(ScoreParts(user_utterance, Strip(candidate)))

\* the user's utterances score_candidate is called with
UtterancePool ==
  {<<"H", "e", "j">>,
   <<"C", "o", " ", "t", "o", " ", "j", "e", "s", "t", "?">>,
   <<"t", "a", "k">>,
   <<"D", "o", "b", "r", "y", " ", "p", "o", "m", "y", "s", "l">>,
   <<>>}

\* the trimmed candidates score_candidate is called with
CandidatePool ==
  {<<"U", "S", "E", "R", ":", " ", "c", "o", "?">>,
   <<"B", "O", "T", ":", " ", "t", "a", "k", ".">>,
   <<"T", "a", "k", ".", " ", "B", "O", "T", ":", " ", "n", "i", "e", ".">>,
   <<"J", "a", " ", "B", "O", "T", ":", " ", "x">>,
   <<"N", "o", " ", "i", " ", "U", "S", "E", "R", ":", " ", "j", "a">>,
   <<"D", "o", "b", "r", "z", "e", ".">>,
   <<>>,
   <<" ", "U", "S", "E", "R", ":", " ", "a", " ">>,
   <<"a", "b", "U", "S", "E", "R", ":", " ", "x">>,
   <<"T", "o", " ", "j", "e", "s", "t", " ", "b", "a", "r", "d", "z", "o",
     " ", "d", "o", "b", "r", "y", " ", "p", "o", "m", "y", "s", "l", ".">>,
   <<"t", "a", "k", " ", "t", "a", "k", " ", "t", "a", "k">>,
   <<"B", "O", "T", ":", " ", "B", "O", "T", ":", " ", "x">>}

NoParts ==
  [len |-> 0, rep |-> [num |-> 0, den |-> 1], end |-> 0,
   jac |-> [num |-> 0, den |-> 1], role |-> 0]

CandReady ==
  /\ cand_user \in UtterancePool
  /\ cand_text \in CandidatePool
  /\ cand_parts = NoParts
  /\ cand_score = [num |-> 0, den |-> 1]
  /\ cand_pc = "called"

CandIdle ==
  /\ cand_user = <<>>
  /\ cand_text = <<>>
  /\ cand_parts = NoParts
  /\ cand_score = [num |-> 0, den |-> 1]
  /\ cand_pc = "idle"

\* score_candidate(user_utterance, candidate) runs
ScoreCandidate ==
  /\ cand_pc = "called"
  /\ cand_parts' = ScoreParts(cand_user, Strip(cand_text))
  /\ cand_score' = score_candidate(cand_user, cand_text)
  /\ cand_pc' = "scored"
  /\ UNCHANGED <<cand_user, cand_text>>
  /\ UNCHANGED <<routerVars, arithVars, pllVars, contVars, sampVars, rankVars,
                 cmpVars, ioVars, chatVars, spanVars, fltVars, predVars>>

NextCand == ScoreCandidate

(***************************************************************************)
(* The chat loop of pracownia_1/zadanie_1.py: main, build_prompt,          *)
(* first_sentence and choose_best                                          *)
(***************************************************************************)
\* the turns of the dialogue the loop is followed for
MaxChatTurns == 3

\* MAX_TURNS_IN_PROMPT = 14, scaled to the dialogues followed
MAX_TURNS_IN_PROMPT == 3

\* NUM_CANDIDATES = 10, scaled
NUM_CANDIDATES == 2

\* the texts of SYSTEM_PREAMBLE and EXAMPLE_FEW_SHOT, each as one symbol
SYSTEM_PREAMBLE == <<"SYSTEM_PREAMBLE">>

EXAMPLE_FEW_SHOT == <<"EXAMPLE_FEW_SHOT">>

\* list(history)[:MAX_TURNS_IN_PROMPT]: the oldest n entries
FirstN(s, n) == SubSeq(s, 1, Min(n, Len(s)))

\* list(history)[-MAX_TURNS_IN_PROMPT:]: the latest n entries
LastN(s, n) == SubSeq(s, Max(1, Len(s) - n + 1), Len(s))

\* (text or "").replace("\r", " ").strip()
CleanText(txt) == Strip([k \in 1..Len(txt) |-> IF txt[k] = "\r" THEN " " ELSE txt[k]])

\* f"{prefix}: {text}"
PromptLine(entry) ==
  (IF entry[1] = "user" THEN <<"U", "S", "E", "R">> ELSE <<"B", "O", "T">>)
    \o <<":", " ">> \o CleanText(entry[2])

RECURSIVE JoinLines(_)
\* "\n".join(lines)
JoinLines(lines) ==
  IF lines = <<>> THEN <<>>
  ELSE IF Len(lines) = 1 THEN lines[1]
  ELSE lines[1] \o <<"\n">> \o JoinLines(Tail(lines))

PromptLines(turns) == [k \in 1..Len(turns) |-> PromptLine(turns[k])]

\* build_prompt of zadanie_1.py
build_chat_prompt(hist) ==
  JoinLines(<<SYSTEM_PREAMBLE, EXAMPLE_FEW_SHOT>>
            \o PromptLines(LastN(hist, MAX_TURNS_IN_PROMPT))
            \o << <<"B", "O", "T", ":">> >>)

\* s.split(sep)[0]
BeforeFirst(s, sep) ==
  IF FindFrom(s, sep, 1) = 0 THEN s ELSE SubSeq(s, 1, FindFrom(s, sep, 1) - 1)

\* s.split(sep, 1)[1] for s containing sep
AfterFirst(s, sep) == DropFirst(s, FindFrom(s, sep, 1) + Len(sep) - 1)

IsSentenceEnd(c) == c \in {".", "?", "!"}

RECURSIVE SentenceFrom(_, _, _)
\* re.search(r"([^.?!]{2,}[.?!])", s): from is where the run of other
\* characters being read began, at is the character looked at; the match
\* or <<>> for none
SentenceFrom(s, from, at) ==
  IF at > Len(s) THEN <<>>
  ELSE IF ~IsSentenceEnd(s[at]) THEN SentenceFrom(s, from, at + 1)
  ELSE IF at - from >= 2 THEN SubSeq(s, from, at)
  ELSE SentenceFrom(s, at + 1, at + 1)

\* out[:200]
Clip(s) == SubSeq(s, 1, Min(200, Len(s)))

AfterLabel(s) == IF Contains(s, BOT_MARK) THEN Strip(AfterFirst(s, BOT_MARK)) ELSE s

\* m.group(1).strip() if m else text.strip()
MatchOrText(txt) ==
  Strip(IF SentenceFrom(txt, 1, 1) # <<>> THEN SentenceFrom(txt, 1, 1) ELSE txt)

first_sentence(raw) ==
  Strip(Clip(MatchOrText(
    AfterLabel(Strip(BeforeFirst(raw, <<"\n", "U", "S", "E", "R", ":">>))))))

\* scored.sort(key=lambda x: x[0], reverse=True); scored[0][1]: the sort is
\* stable, so the first of the candidates with the highest score
choose_best(user_utterance, candidates) ==
  candidates[CHOOSE k \in 1..Len(candidates) :
    /\ \A j \in 1..Len(candidates) :
         ~ScoreGreater(score_candidate(user_utterance, candidates[j]),
                       score_candidate(user_utterance, candidates[k]))
    /\ \A j \in 1..(k - 1) :
         ScoreGreater(score_candidate(user_utterance, candidates[k]),
                      score_candidate(user_utterance, candidates[j]))]

\* "Jasne, w czym mogę pomóc?"
FALLBACK == <<"J", "a", "s", "n", "e", ",", " ", "w", " ", "c", "z", "y", "m", " ", "m", "o", "g", "e_", " ", "p", "o", "m", "o_", "c", "?">>

\* what input() returns
InputPool ==
  {<<"H", "e", "j">>,
   <<" ", "c", "o", "\r", "t", "o", "?", " ">>,
   <<"N", "a", "r", "a">>,
   <<" ", " ">>}

\* the generated_text of one returned sequence
RawPool ==
  {<<>>,
   <<" ", "T", "a", "k", ".", " ", "A", " ", "t", "y", "?", "\n", "U", "S",
     "E", "R", ":", " ", "c", "o">>}

RawLists == {s \in SeqsUpTo(RawPool, NUM_CANDIDATES) : Len(s) = NUM_CANDIDATES}

ChatReady ==
  /\ history = <<>>
  /\ chat_user = <<>>
  /\ chat_prompt = <<>>
  /\ chat_outs = <<>>
  /\ chat_best = <<>>
  /\ chat_pc = "input"

ChatIdle ==
  /\ history = <<>>
  /\ chat_user = <<>>
  /\ chat_prompt = <<>>
  /\ chat_outs = <<>>
  /\ chat_best = <<>>
  /\ chat_pc = "idle"

ChatFrame ==
  UNCHANGED <<routerVars, arithVars, pllVars, contVars, sampVars, rankVars,
              cmpVars, ioVars, candVars, spanVars, fltVars, predVars>>

\* user = input(...).strip(); ...; history.append(("user", user))
ChatInput ==
  /\ chat_pc = "input"
  /\ Len(history) < 2 * MaxChatTurns
  /\ \E line \in InputPool :
       /\ LowerStr(Strip(line)) # <<"n", "a", "r", "a">>
       /\ Strip(line) # <<>>
       /\ chat_user' = Strip(line)
       /\ history' = Append(history, <<"user", Strip(line)>>)
  /\ chat_pc' = "prompt"
  /\ UNCHANGED <<chat_prompt, chat_outs, chat_best>>
  /\ ChatFrame

\* the three ways out of the loop: 'nara', KeyboardInterrupt, an empty line
ChatQuit ==
  /\ chat_pc = "input"
  /\ \E line \in InputPool \cup {<<"KeyboardInterrupt">>} :
       /\ \/ line = <<"KeyboardInterrupt">>
          \/ LowerStr(Strip(line)) = <<"n", "a", "r", "a">>
          \/ Strip(line) = <<>>
       /\ chat_user' = IF line = <<"KeyboardInterrupt">> THEN chat_user ELSE Strip(line)
  /\ chat_pc' = "ended"
  /\ UNCHANGED <<history, chat_prompt, chat_outs, chat_best>>
  /\ ChatFrame

\* prompt = build_prompt(history); outs = generator(prompt, ...)
ChatGenerate ==
  /\ chat_pc = "prompt"
  /\ chat_prompt' = build_chat_prompt(history)
  /\ chat_outs' \in RawLists
  /\ chat_pc' = "generated"
  /\ UNCHANGED <<history, chat_user, chat_best>>
  /\ ChatFrame

\* trimmed = [first_sentence(t) for t in raw_texts];
\* best, _ = choose_best(user, trimmed)
ChatRerank ==
  /\ chat_pc = "generated"
  /\ chat_best' =
       choose_best(chat_user, [k \in 1..Len(chat_outs) |-> first_sentence(chat_outs[k])])
  /\ chat_pc' = "chosen"
  /\ UNCHANGED <<history, chat_user, chat_prompt, chat_outs>>
  /\ ChatFrame

\* if not best: best = FALLBACK; print; history.append(("bot", best))
ChatReply ==
  /\ chat_pc = "chosen"
  /\ history' = Append(history, <<"bot", IF chat_best = <<>> THEN FALLBACK ELSE chat_best>>)
  /\ chat_pc' = "input"
  /\ UNCHANGED <<chat_user, chat_prompt, chat_outs, chat_best>>
  /\ ChatFrame

NextChat == ChatInput \/ ChatQuit \/ ChatGenerate \/ ChatRerank \/ ChatReply

(***************************************************************************)
(* MaskedLMEngine.greedy_span of d.py, one pass of its loop at a time      *)
(***************************************************************************)
\* the largest max_tokens greedy_span is called with
MaxSpanTokens == 3

\* what the fill-mask pipeline may predict for a template, best first
SpanPredLists ==
  {PredLists[k] : k \in 1..Len(PredLists)}
    \cup {<<Pred(55, <<" ", "i">>), Pred(40, <<" ", "O", "s", "l", "o">>)>>,
          <<Pred(45, <<"Gdot", "w">>), Pred(30, <<"!">>)>>}

SpanPrefixes ==
  {<<"A", "u", "t", "o", "r", " ", "t", "o">>,
   <<"S", "t", "o", " ", "l", "a", "t", " ", "n", "a", "p", "i", "s", "a", "l">>}

\* tok in {",", ".", ";", "!", "?", "i"}
IsStopToken(tok) == tok \in StopTokens

\* cands = self.fill_one(template, topk=5) for the pipeline's predictions
SpanCands(preds) == NonEmpty(Cleaned(FirstK(preds, 5)))

\* template = f"{cur} <mask>{terminator}"
SpanTemplate(cur, terminator) == cur \o <<" ", "<mask>">> \o terminator

SpanReady ==
  /\ span_prefix \in SpanPrefixes
  /\ span_terminator \in {<<".">>, <<"?">>}
  /\ span_max_tokens \in 0..MaxSpanTokens
  /\ span_cur = span_prefix
  /\ answer_tokens = <<>>
  /\ span_rounds = 0
  /\ span_templates = <<>>
  /\ span_preds = <<>>
  /\ span_out = <<>>
  /\ span_pc = "loop"

SpanIdle ==
  /\ span_prefix = <<>>
  /\ span_terminator = <<>>
  /\ span_max_tokens = 0
  /\ span_cur = <<>>
  /\ answer_tokens = <<>>
  /\ span_rounds = 0
  /\ span_templates = <<>>
  /\ span_preds = <<>>
  /\ span_out = <<>>
  /\ span_pc = "idle"

SpanFrame ==
  UNCHANGED <<routerVars, arithVars, pllVars, contVars, sampVars, rankVars,
              cmpVars, ioVars, candVars, chatVars, fltVars, predVars>>

\* one pass of the loop with the predictions the pipeline returned
SpanPass(preds) ==
  /\ span_templates' = Append(span_templates, SpanTemplate(span_cur, span_terminator))
  /\ span_preds' = Append(span_preds, preds)
  /\ span_rounds' = span_rounds + 1
  /\ IF SpanCands(preds) = <<>> \/ IsStopToken(SpanCands(preds)[1].tok)
     THEN /\ span_pc' = "break"
          /\ UNCHANGED <<answer_tokens, span_cur>>
     ELSE /\ answer_tokens' = Append(answer_tokens, SpanCands(preds)[1].tok)
          /\ span_cur' = span_cur \o <<" ">> \o SpanCands(preds)[1].tok
          /\ span_pc' = "loop"

\* for _ in range(max_tokens): ...
SpanStep ==
  /\ span_pc = "loop"
  /\ span_rounds < span_max_tokens
  /\ \E preds \in SpanPredLists : SpanPass(preds)
  /\ UNCHANGED <<span_prefix, span_terminator, span_max_tokens, span_out>>
  /\ SpanFrame

\* return " ".join(answer_tokens).strip(), after a break or max_tokens passes
SpanReturn ==
  /\ span_pc = "break" \/ (span_pc = "loop" /\ span_rounds = span_max_tokens)
  /\ span_out' = Strip(JoinSpace(answer_tokens))
  /\ span_pc' = "returned"
  /\ UNCHANGED <<span_prefix, span_terminator, span_max_tokens, span_cur,
                 answer_tokens, span_rounds, span_templates, span_preds>>
  /\ SpanFrame

NextSpan == SpanStep \/ SpanReturn

(***************************************************************************)
(* modify_logits_for_letter_constraint of pracownia_2/main.py on the       *)
(* logits themselves                                                       *)
(***************************************************************************)
\* forbidden_penalty = -20.0
FORBIDDEN_PENALTY == -20

\* the values a logit takes in the vectors the filter is applied to
LogitValues == {0, 30}

\* for tok_id in range(len(logits)): ... logits[tok_id] += forbidden_penalty
AddForbiddenPenalty(logits, letter) ==
  [tok_id \in VocabIds |->
     IF Forbidden(TokenText[tok_id], letter)
     THEN logits[tok_id] + FORBIDDEN_PENALTY ELSE logits[tok_id]]

FilterReady ==
  /\ flt_logits \in [VocabIds -> LogitValues]
  /\ flt_letter \in Letters
  /\ flt_out = <<>>
  /\ flt_pc = "called"

FilterIdle ==
  /\ flt_logits = <<>>
  /\ flt_letter = "m"
  /\ flt_out = <<>>
  /\ flt_pc = "idle"

\* logits = modify_logits_for_letter_constraint(logits, tokenizer, letter)
ModifyLogits ==
  /\ flt_pc = "called"
  /\ flt_out' = AddForbiddenPenalty(flt_logits, flt_letter)
  /\ flt_pc' = "returned"
  /\ UNCHANGED <<flt_logits, flt_letter>>
  /\ UNCHANGED <<routerVars, arithVars, pllVars, contVars, sampVars, rankVars,
                 cmpVars, ioVars, candVars, chatVars, spanVars, predVars>>

NextFilter == ModifyLogits


(***************************************************************************)
(* test.py: the templates, score_opinion and predict                       *)
(***************************************************************************)
\* if not prefix.endswith("."): prefix += "."
WithDot(s) == IF EndsWith(s, <<".">>) THEN s ELSE s \o <<".">>

Tmpl(pre, pos_cont, neg_cont) ==
  [prefix |-> pre, pos_cont |-> pos_cont, neg_cont |-> neg_cont]

tmpl_1(opinia) ==
  Tmpl(WithDot(Strip(opinia)) \o <<" ", "T", "a", " ", "o", "p", "i", "n", "i", "a", " ",
    "j", "e", "s", "t", " ">>,
       <<"p", "o", "z", "y", "t", "y", "w", "n", "a", ".">>, <<"n", "e", "g", "a", "t",
         "y", "w", "n", "a", ".">>)

tmpl_2(opinia) ==
  Tmpl(WithDot(<<"O", "p", "i", "n", "i", "a", ":", " ">> \o Strip(opinia)) \o <<" ",
    "W", "e", "r", "d", "y", "k", "t", ":", " ">>,
       <<"p", "o", "z", "y", "t", "y", "w", "n", "a", ".">>, <<"n", "e", "g", "a", "t",
         "y", "w", "n", "a", ".">>)

tmpl_3(opinia) ==
  Tmpl(WithDot(Strip(opinia)) \o <<" ", "O", "g", "o_", "l", "n", "i", "e", " ">>,
       <<"p", "o", "l", "e", "c", "a", "m", ".">>,
       <<"n", "i", "e", " ", "p", "o", "l", "e", "c", "a", "m", ".">>)

tmpl_4(opinia) ==
  Tmpl(WithDot(Strip(opinia)) \o <<" ", "T", "o", " ", "d", "o", "s_", "w", "i", "a",
    "d", "c", "z", "e", "n", "i", "e", " ", "b", "y", "l_", "o", " ">>,
       <<"d", "o", "b", "r", "e", ".">>, <<"z", "l_", "e", ".">>)

tmpl_5(opinia) ==
  Tmpl(WithDot(Strip(opinia)) \o <<" ", "O", "c", "e", "n", "a", " ", "j", "e", "s", "t", " ">>,
       <<"d", "o", "b", "r", "a", ".">>, <<"z", "l_", "a", "a", ".">>)

\* TEMPLATES = [tmpl_1, tmpl_2, tmpl_3, tmpl_4, tmpl_5], by __name__
TEMPLATES == <<"tmpl_1", "tmpl_2", "tmpl_3", "tmpl_4", "tmpl_5">>

\* t(opinia) for the k-th template of TEMPLATES
Template(k, opinia) ==
  CASE k = 1 -> tmpl_1(opinia)
    [] k = 2 -> tmpl_2(opinia)
    [] k = 3 -> tmpl_3(opinia)
    [] k = 4 -> tmpl_4(opinia)
    [] k = 5 -> tmpl_5(opinia)

\* (t.__name__, lp_pos, lp_neg, lp_pos - lp_neg)
TemplateScore(name, lp_pos, lp_neg) ==
  [name |-> name, lp_pos |-> lp_pos, lp_neg |-> lp_neg, margin |-> lp_pos - lp_neg]

\* the dict score_opinion returns
ScoreDict(pos_total, neg_total, scores) ==
  [logp_pos |-> pos_total, logp_neg |-> neg_total,
   margin |-> pos_total - neg_total, template_scores |-> scores]

\* predict with >= in place of >
LabelPosOnTie(sc) == IF sc.logp_pos >= sc.logp_neg THEN "pos" ELSE "neg"

\* "pos" if sc["logp_pos"] > sc["logp_neg"] else "neg"
Label(sc) == IF sc.logp_pos > sc.logp_neg THEN "pos" ELSE "neg"

NoDict == ScoreDict(0, 0, <<>>)

\* log-probabilities continuation_logprob returns, in whole nats: sums of
\* them are exact, the rounding of float addition is not modelled
LogProbValues == {-2, -1}

OpinionPool ==
  {<<"S", "u", "p", "e", "r", " ", "h", "o", "t", "e", "l", ".">>,
   <<" ", "B", "r", "u", "d", "n", "o", " ">>,
   <<>>,
   <<"N", "i", "e", " ", "p", "o", "l", "e", "c", "a", "m">>}

\* predict(opinia) is called
PredReady ==
  /\ pred_opinia \in OpinionPool
  /\ pred_t = 0
  /\ template_scores = <<>>
  /\ logp_pos_total = 0
  /\ logp_neg_total = 0
  /\ pred_calls = <<>>
  /\ pred_sc = NoDict
  /\ pred_label = "none"
  /\ pred_pc = "loop"

\* predict is not observed
PredIdle ==
  /\ pred_opinia = <<>>
  /\ pred_t = 0
  /\ template_scores = <<>>
  /\ logp_pos_total = 0
  /\ logp_neg_total = 0
  /\ pred_calls = <<>>
  /\ pred_sc = NoDict
  /\ pred_label = "none"
  /\ pred_pc = "idle"

PredFrame ==
  UNCHANGED <<routerVars, arithVars, pllVars, contVars, sampVars, rankVars,
              cmpVars, ioVars, candVars, chatVars, spanVars, fltVars>>

\* what one pass of the loop adds, with the two calls of
\* continuation_logprob it makes
Scored2(name, tpl, lp_pos, lp_neg) ==
  /\ template_scores' = Append(template_scores, TemplateScore(name, lp_pos, lp_neg))
  /\ logp_pos_total' = logp_pos_total + lp_pos
  /\ logp_neg_total' = logp_neg_total + lp_neg
  /\ pred_calls' = pred_calls \o <<<<tpl.prefix, tpl.pos_cont>>,
                                   <<tpl.prefix, tpl.neg_cont>>>>

\* lp_pos = continuation_logprob(prefix, pos_cont) and lp_neg =
\* continuation_logprob(prefix, neg_cont): whatever the language model gives
ScoreWith(name, tpl) ==
  \E lp_pos \in LogProbValues, lp_neg \in LogProbValues :
    Scored2(name, tpl, lp_pos, lp_neg)

\* for t in TEMPLATES: one pass of the loop of score_opinion
ScoreTemplate ==
  /\ pred_pc = "loop"
  /\ pred_t < Len(TEMPLATES)
  /\ ScoreWith(TEMPLATES[pred_t + 1], Template(pred_t + 1, pred_opinia))
  /\ pred_t' = pred_t + 1
  /\ UNCHANGED <<pred_opinia, pred_sc, pred_label, pred_pc>>
  /\ PredFrame

\* score_opinion returns its dict and predict the label
PredictReturn ==
  /\ pred_pc = "loop"
  /\ pred_t = Len(TEMPLATES)
  /\ pred_sc' = ScoreDict(logp_pos_total, logp_neg_total, template_scores)
  /\ pred_label' = Label(pred_sc')
  /\ pred_pc' = "returned"
  /\ UNCHANGED <<pred_opinia, pred_t, template_scores, logp_pos_total,
                 logp_neg_total, pred_calls>>
  /\ PredFrame

NextPred == ScoreTemplate \/ PredictReturn

RestIdle == CmpIdle /\ IoIdle /\ CandIdle /\ ChatIdle /\ SpanIdle /\ FilterIdle /\ PredIdle

\* the scorers and samplers outside pracownia_1 are not observed
OthersIdle == ContIdle({0}) /\ SampleIdle /\ RankIdle /\ RestIdle

Init == RouterInit(BatchPool, MaxBatch) /\ ArithIdle /\ PllIdle /\ OthersIdle

InitRouter == RouterInit(QuestionPool, 1) /\ ArithIdle /\ PllIdle /\ OthersIdle

InitPLL == RouterIdle(Adapters) /\ ArithIdle /\ PllIdle /\ OthersIdle

InitArith == RouterIdle({0}) /\ ArithReady /\ PllIdle /\ OthersIdle

InitCont ==
  /\ RouterIdle({0}) /\ ArithIdle /\ PllIdle
  /\ lm \in Models /\ ContReady /\ SampleIdle /\ RankIdle /\ RestIdle

InitSample ==
  /\ RouterIdle({0}) /\ ArithIdle /\ PllIdle
  /\ ContIdle(Models) /\ SampleReady /\ RankIdle /\ RestIdle

InitRank ==
  /\ RouterIdle({0}) /\ ArithIdle /\ PllIdle
  /\ ContIdle({0}) /\ SampleIdle /\ RankReady /\ RestIdle

Idle == RouterIdle({0}) /\ ArithIdle /\ PllIdle /\ ContIdle({0}) /\ SampleIdle /\ RankIdle

InitCmp == Idle /\ CmpReady /\ IoIdle /\ CandIdle /\ ChatIdle /\ SpanIdle /\ FilterIdle /\ PredIdle

InitIO ==
  /\ RouterAtStdin /\ ArithIdle /\ PllIdle
  /\ ContIdle({0}) /\ SampleIdle /\ RankIdle /\ CmpIdle /\ IoReady /\ CandIdle
  /\ ChatIdle /\ SpanIdle /\ FilterIdle /\ PredIdle

InitCand == Idle /\ CmpIdle /\ IoIdle /\ CandReady /\ ChatIdle /\ SpanIdle /\ FilterIdle /\ PredIdle

InitChat == Idle /\ CmpIdle /\ IoIdle /\ CandIdle /\ ChatReady /\ SpanIdle /\ FilterIdle /\ PredIdle

InitSpan == Idle /\ CmpIdle /\ IoIdle /\ CandIdle /\ ChatIdle /\ SpanReady /\ FilterIdle /\ PredIdle

InitFilter ==
  /\ Idle /\ CmpIdle /\ IoIdle /\ CandIdle /\ ChatIdle /\ SpanIdle
  /\ FilterReady /\ PredIdle

InitPredict ==
  /\ Idle /\ CmpIdle /\ IoIdle /\ CandIdle /\ ChatIdle /\ SpanIdle /\ FilterIdle
  /\ PredReady

Next ==
  \/ AnswerMany
  \/ AnswerManyLoadFails
  \/ NextQuestion
  \/ AnswerManyReturn
  \/ TryArithmetic
  \/ Ensure
  \/ EnsureFails
  \/ YesNo
  \/ YesNoFails
  \/ Capital
  \/ CapitalFails
  \/ AnswerGeneral
  \/ AnswerGeneralFails
  \/ Generate
  \/ GenerateFails
  \/ AppendAnswer
  \/ CatchError
  \/ Rerun

vars ==
  <<routerVars, arithVars, pllVars, contVars, sampVars, rankVars, restVars>>

Spec == Init /\ [][Next]_vars

SpecRouter == InitRouter /\ [][Next]_vars

SpecPLL == InitPLL /\ [][NextPLL]_vars

SpecArith == InitArith /\ [][NextArith]_vars

SpecCont == InitCont /\ [][NextCont]_vars

SpecSample == InitSample /\ [][NextSample]_vars

\* the loop of sample_sequence runs on until it returns
SpecSampleLive == SpecSample /\ WF_vars(NextSample)

SpecRank == InitRank /\ [][NextRank]_vars

SpecCmp == InitCmp /\ [][NextCmp]_vars

SpecIO == InitIO /\ [][NextIO]_vars

SpecCand == InitCand /\ [][NextCand]_vars

SpecChat == InitChat /\ [][NextChat]_vars

SpecSpan == InitSpan /\ [][NextSpan]_vars

SpecFilter == InitFilter /\ [][NextFilter]_vars

SpecPredict == InitPredict /\ [][NextPred]_vars

(***************************************************************************)
(* Properties of Router.answer_one                                         *)
(***************************************************************************)
\* the stages in the order the code of answer_one goes through them
StageOrder ==
  IF variant = "d"
  THEN <<"arithmetic", "yes_no", "capital", "lexicon", "template", "generic">>
  ELSE <<"arithmetic", "capital", "yes_no", "generate">>

StageNames == [k \in 1..Len(stages) |-> stages[k].stage]

IsPrefix(a, b) == Len(a) <= Len(b) /\ \A k \in 1..Len(a) : a[k] = b[k]

\* the stages before the last one tried yielded no match
EarlierYieldedNone == \A k \in 1..(Len(stages) - 1) : stages[k].result = None

\* every model call made for the question belongs to a stage that was tried
CallsOfTriedStages ==
  \A k \in 1..Len(calls) :
    calls[k].stage = "ensure" \/ \E j \in 1..Len(stages) : stages[j].stage = calls[k].stage

\* C1 (amended): answer_one tries its stages in the order of the code:
\* d.py arithmetic, yes/no, capital, then lexicon, templates and generic
\* cloze of answer_general; c.py arithmetic, capital, yes/no, generation.
\* It returns the answer of the first stage that yields one, no stage after
\* that one runs or calls a model, and "nie wiem" is returned only when
\* every stage was tried and yielded no match.
C1_StagesInCodeOrder ==
  /\ IsPrefix(StageNames, StageOrder)
  /\ EarlierYieldedNone
  /\ pc = "return" =>
       /\ CallsOfTriedStages
       /\ IF answered_by = "sentinel"
          THEN /\ ans = SENTINEL
               /\ StageNames = StageOrder
               /\ stages[Len(stages)].result \in {None, <<>>}
          ELSE /\ ans \notin {None, SENTINEL}
               /\ stages[Len(stages)] = Stage(answered_by, ans)

\* C1 witness: d.py answers from the capital cloze after the arithmetic
\* heuristic and the yes/no test yielded nothing
C1_Witness ==
  /\ pc = "return"
  /\ variant = "d"
  /\ answered_by = "capital"
  /\ StageNames = <<"arithmetic", "yes_no", "capital">>

\* the order the claim states; the template cloze counts as part of the
\* generic cloze fallback
ClaimedOrder == <<"arithmetic", "lexicon", "yes_no", "capital", "generic">>

ClaimedNames == SelectSeq(StageNames, LAMBDA n : n # "template")

\* C1 (as stated): the stages of d.py are tried in the order arithmetic,
\* lexicon, yes/no, capital, generic cloze
C1_ClaimedOrder == variant = "d" => IsPrefix(ClaimedNames, ClaimedOrder)

\* "czy " in any case at the start of q
CzyForm(q) ==
  /\ Len(q) >= 4
  /\ q[1] \in {"c", "C"}
  /\ q[2] \in {"z", "Z"}
  /\ q[3] \in {"y", "Y"}
  /\ q[4] = " "

\* the question answer_one works on has the yes/no form
CurIsCzy == idx \in 1..Len(sorted_qs) /\ CzyForm(normalize_whitespace(sorted_qs[idx]))

TakNie == {<<"T", "a", "k">>, <<"N", "i", "e">>}

\* the positions of out whose answer_one raised: the models fail in the
\* first call of answer_many only, and out is what it returned until the
\* second call starts
RaisedNow == IF run = 1 \/ pc = "idle" THEN RaisedAt ELSE {}

\* C2: a question whose normalised text begins with "czy " (any case) is
\* resolved by the yes/no stage: no other stage answers it, the fallback
\* stages are never entered for it, and the answer answer_one returns is
\* "Tak" or "Nie"; so is its answer in the output of answer_many.
C2_YesNoFormAnswered ==
  /\ CurIsCzy =>
       /\ pc \notin {"general", "generate"}
       /\ \A k \in 1..Len(stages) :
            stages[k].result # None => stages[k].stage = "yes_no"
       /\ pc = "return" => answered_by = "yes_no" /\ ans \in TakNie
  /\ \A k \in 1..Len(out) :
       (CzyForm(normalize_whitespace(out[k][1])) /\ k \notin RaisedNow)
         => out[k][2] \in TakNie

\* C2 witness: an upper-case, tab-separated yes/no question was answered by
\* the yes/no stage
C2_Witness ==
  /\ pc = "return"
  /\ CurQ = <<"C", "Z", "Y", "\t", "2", "+", "2", " ", "t", "o", " ", "4", "?">>
  /\ answered_by = "yes_no"
  /\ ans \in TakNie

(***************************************************************************)
(* Properties of Router.answer_many                                        *)
(***************************************************************************)
\* how many of the questions given are s once stripped
TimesGiven(s) == Cardinality({j \in 1..Len(questions) : Strip(questions[j]) = s})

\* how many pairs of out are for the question s
TimesAnswered(s) == Cardinality({k \in 1..Len(out) : out[k][1] = s})

NonBlankGiven == {j \in 1..Len(questions) : Strip(questions[j]) # <<>>}

\* f"[blad:" opens the diagnostic answer
Diagnostic(a) == StartsWith(a, <<"[", "b", "l_", "a_", "d", ":">>)

\* exactly one question of the first call failed, and answer_one raised
OneRaised == Cardinality(faults) = 1 /\ \A f \in faults : f.raised

\* C3: answer_many returns one pair per non-blank question given.  When
\* answer_one raised for exactly one question, the pair of that question
\* holds a diagnostic starting with "[blad:", and every other pair,
\* those after it included, is the pair the call returns when no model
\* fails (the second call, on the same questions).
C3_OnePairPerQuestion ==
  /\ pc = "done" =>
       /\ Len(out) = Cardinality(NonBlankGiven)
       /\ \A j \in NonBlankGiven :
            TimesAnswered(Strip(questions[j])) = TimesGiven(Strip(questions[j]))
  /\ (pc = "done" /\ run = 2 /\ OneRaised) =>
       /\ Len(first_out) = Len(out)
       /\ \A k \in 1..Len(out) :
            IF k \in RaisedAt
            THEN first_out[k][1] = out[k][1] /\ Diagnostic(first_out[k][2])
            ELSE first_out[k] = out[k]

\* C3 witness: the first of two questions failed, the second one was
\* answered as it is without the failure
C3_Witness ==
  /\ pc = "done"
  /\ run = 2
  /\ OneRaised
  /\ RaisedAt = {1}
  /\ Len(out) = 2
  /\ ~Diagnostic(first_out[2][2])

\* C4 (as stated): every failure of a model, a failure to load it included,
\* ends as the diagnostic answer of its question, and answer_many never
\* lets an exception through to its caller
C4_FailuresBecomeAnswers ==
  /\ pc # "crashed"
  /\ (pc = "done" /\ run = 1) =>
       \A f \in faults : Diagnostic(out[f.at][2])

\* C5: the pairs of answer_many are in ascending order of the stripped
\* non-blank questions; called again with the same questions in another
\* order (the models are deterministic and do not fail) it returns the same
\* list of pairs; the list the caller passed is never changed.
C5_SortedAndOrderIndependent ==
  /\ \A k \in 1..(Len(out) - 1) : ~StrLess(out[k + 1][1], out[k][1])
  /\ \A k \in 1..Len(out) :
       out[k][1] # <<>> /\ \E j \in 1..Len(questions) : out[k][1] = Strip(questions[j])
  /\ (pc = "done" /\ run = 2 /\ faults = {}) => out = first_out
  /\ questions = given

\* C5 witness: two different questions given in descending order, then in
\* ascending order, were answered with the same two pairs
C5_Witness ==
  /\ pc = "done"
  /\ run = 2
  /\ faults = {}
  /\ Len(out) = 2
  /\ questions # first_questions
  /\ StrLess(Strip(first_questions[2]), Strip(first_questions[1]))
  /\ out = first_out

(***************************************************************************)
(* Properties of try_arithmetic                                            *)
(***************************************************************************)
TriggerPhrases ==
  {<<"i", "l", "e", " ", "t", "o">>, <<"p", "o", "l", "i", "c", "z">>,
   <<"o", "b", "l", "i", "c", "z">>,
   <<"j", "a", "k", "i", " ", "j", "e", "s", "t", " ", "w", "y", "n", "i", "k">>}

\* q begins with a trigger phrase, in any case
BeginsWithTrigger(q) == \E t \in TriggerPhrases : StartsWith(LowerStr(q), t)

\* the text of the value p/q: the digits of an integer, else ten
\* significant digits with a decimal comma
ValueText(r) ==
  IF r.q = 1 THEN IntToStr(r.p)
  ELSE ReplaceChar(FormatG10([p |-> r.p, q |-> r.q]), ".", ",")

\* C6 (amended): try_arithmetic returns no match for every question that,
\* with the surrounding whitespace stripped, does not begin with a trigger
\* phrase (any case); for a triggered expression over integer literals,
\* + - * /, parentheses and at most one 'A% z B' form whose value is defined
\* it returns the text of the value under the standard precedence; with two
\* or more 'A% z B' forms it returns no match.
C6_ArithmeticValue ==
  arith_pc = "returned" =>
    /\ ~BeginsWithTrigger(Strip(arith_q)) => arith_out = None
    /\ (arith_kind = "expression" /\ arith_ref.ok /\ arith_pct <= 1)
         => arith_out = ValueText(arith_ref)
    /\ (arith_kind = "expression" /\ arith_pct >= 2) => arith_out = None

\* C6 witness: an expression with one 'A% z B' form and a value that is no
\* integer was evaluated
C6_Witness ==
  /\ arith_pc = "returned"
  /\ arith_kind = "expression"
  /\ arith_pct = 1
  /\ arith_ref.ok
  /\ arith_ref.q # 1
  /\ arith_out = ValueText(arith_ref)

\* C6 (as stated): no match for every question that does not begin with a
\* trigger phrase, and the value for every triggered expression over
\* integer literals, + - * /, parentheses and the 'A% z B' form
C6_AsStated ==
  arith_pc = "returned" =>
    /\ ~BeginsWithTrigger(arith_q) => arith_out = None
    /\ (arith_kind = "expression" /\ arith_ref.ok)
         => arith_out = ValueText(arith_ref)

\* Triggered questions whose expression is empty, has a character outside
\* the whitelist, divides by zero, or has an unbalanced parenthesis
Malformed ==
  {<<"I", "l", "e", " ", "t", "o">>,
   <<"I", "l", "e", " ", "t", "o", " ", "2", "+", "x", "?">>,
   <<"O", "b", "l", "i", "c", "z", " ", "1", "/", "0">>,
   <<"I", "l", "e", " ", "t", "o", " ", "(", "2", "+", "3", "?">>}

CurIsMalformed == idx \in 1..Len(sorted_qs) /\ sorted_qs[idx] \in Malformed

\* C7: for a triggered question with a malformed expression try_arithmetic
\* returns no match without raising, and answer_one goes on to the later
\* stages: it constructs the engines next, an exception can only come from
\* a model call made after that, and what it returns comes from a later
\* stage or is the sentinel after the later stages.
C7_MalformedFallsThrough ==
  CurIsMalformed =>
    /\ BeginsWithTrigger(sorted_qs[idx])
    /\ pc = "arithmetic" \/ (Len(stages) >= 1 /\ stages[1] = Stage("arithmetic", None))
    /\ pc = "raise" => Len(calls) >= 1
    /\ pc = "return" =>
         /\ answered_by # "arithmetic"
         /\ Len(stages) >= 2
         /\ ~Diagnostic(ans)

\* C7 witness: "Oblicz 1/0" got its answer from a later stage
C7_Witness ==
  /\ pc = "return"
  /\ CurQ = <<"O", "b", "l", "i", "c", "z", " ", "1", "/", "0">>
  /\ stages[1] = Stage("arithmetic", None)
  /\ Len(stages) >= 2

\* C8: the arithmetic heuristic calls no model: when try_arithmetic
\* produces the answer, answer_one returns it with no engine constructed
\* and no fill-mask, pll or generation call made for the question, and no
\* exception raised.
C8_ArithmeticCallsNoModel ==
  /\ pc = "arithmetic" => calls = <<>>
  /\ (pc = "return" /\ answered_by = "arithmetic") =>
       /\ calls = <<>>
       /\ exc = None
       /\ stages = <<Stage("arithmetic", ans)>>
  /\ (idx \in 1..Len(sorted_qs) /\ pc \notin {"arithmetic", "loop", "done", "idle"}
        /\ try_arithmetic(q_clean) \notin {None, Unmodelled})
       => pc = "return" /\ answered_by = "arithmetic"

\* C8 witness: c.py answered an arithmetic question before any engine was
\* ever constructed
C8_Witness ==
  /\ pc = "return"
  /\ variant = "c"
  /\ answered_by = "arithmetic"
  /\ ans = <<"1", "0", "0">>
  /\ loaded = {}
  /\ calls = <<>>

(***************************************************************************)
(* Properties of pll                                                       *)
(***************************************************************************)
\* the log-probabilities of the original tokens at the masked positions of
\* the first n model calls, added up
RECURSIVE SumOfCalls(_)
SumOfCalls(n) ==
  IF n = 0 THEN 0
  ELSE SumOfCalls(n - 1)
       + LogProb(adapter, model_calls[n].input_ids, model_calls[n].pos,
                 given_ids[model_calls[n].pos])

\* the positions strictly between the first and the last token
InnerPositions == {p \in 1..Len(given_ids) : 1 < p /\ p < Len(given_ids)}

\* C9: pll calls the model once for each position strictly between the first
\* and the last token, in order, on the sequence with that one position
\* masked; it returns the sum of the log-probabilities of the original
\* tokens over max(count, 1), the mean; for two tokens or fewer it calls no
\* model and returns 0; the token sequence itself is never changed.
C9_PllIsMaskedMean ==
  /\ input_ids = given_ids
  /\ pll_pc = "returned" =>
       /\ Len(model_calls) = Cardinality(InnerPositions)
       /\ \A k \in 1..Len(model_calls) :
            /\ model_calls[k].pos = k + 1
            /\ model_calls[k].input_ids = [given_ids EXCEPT ![k + 1] = MaskId]
       /\ pll_value.num = SumOfCalls(Len(model_calls))
       /\ pll_value.den = IF Len(model_calls) = 0 THEN 1 ELSE Len(model_calls)
       /\ Len(given_ids) <= 2 => model_calls = <<>> /\ pll_value.num = 0

\* C9 witness: a sequence with two inner positions was scored by a model
\* that is not indifferent
C9_Witness ==
  /\ pll_pc = "returned"
  /\ Len(given_ids) = 4
  /\ Len(model_calls) = 2
  /\ adapter # 0
  /\ pll_value.den = 2
  /\ pll_value.num < -2

\* C10: scoring a token sequence again gives the value it was given the
\* first time, whatever was scored in between.
C10_PllDeterministic ==
  (pll_pc = "returned" /\ noted.set /\ noted.ids = given_ids)
    => pll_value = noted.score

\* C10 witness: a sequence was scored, then another one, then the first one
\* again
C10_Witness ==
  /\ pll_pc = "returned"
  /\ noted.set
  /\ noted.other
  /\ noted.ids = given_ids
  /\ Len(given_ids) >= 3
  /\ adapter # 0
  /\ pll_value = noted.score

(***************************************************************************)
(* Properties of continuation_logprob                                      *)
(***************************************************************************)
\* the tokens of the continuation, as the tokenizer gives them
TrueTokens == encode(continuation_text)

\* the input of scoring step k: the prefix and the first k - 1 true tokens
ForcedInput(k) == encode(prefix_text) \o SubSeq(TrueTokens, 1, k - 1)

\* at step k the model rates another token higher than the true one
ModelPrefersOther(k) ==
  \E t \in {TokenId(c) : c \in ContAlphabet} :
    NextLogProb(lm, ForcedInput(k), t) > NextLogProb(lm, ForcedInput(k), TrueTokens[k])

\* C11: continuation_logprob makes one scoring step per continuation token;
\* step k queries the model on the prefix tokens followed by the first k - 1
\* true continuation tokens and adds the log-probability of the true token
\* k; the result is the sum of these values, and 0 for an empty
\* continuation.
C11_TeacherForcedSum ==
  /\ \A k \in 1..Len(logp_terms) :
       /\ lm_calls[k] = ForcedInput(k)
       /\ logp_terms[k] = NextLogProb(lm, ForcedInput(k), TrueTokens[k])
  /\ cont_pc = "returned" =>
       /\ Len(lm_calls) = Len(TrueTokens)
       /\ Len(logp_terms) = Len(TrueTokens)
       /\ cont_value = SumSeq(logp_terms)
       /\ TrueTokens = <<>> => cont_value = 0

\* C11 witness: a continuation of three tokens was scored, and at its
\* second step the model rated another token above the true one
C11_Witness ==
  /\ cont_pc = "returned"
  /\ Len(TrueTokens) = 3
  /\ Len(logp_terms) = 3
  /\ ModelPrefersOther(2)
  /\ cont_value = SumSeq(logp_terms)

(***************************************************************************)
(* Properties of sample_sequence                                           *)
(***************************************************************************)
\* the tokens appended by the loop
Appended == SubSeq(generated, Len(prompt_ids) + 1, Len(generated))

IsTerminal(tok) == TokenText[tok] \in Terminals

\* one token and one log-probability per pass, at most MAX_NEW_TOKENS
\* passes, nothing appended after a sentence-terminal token, and a return
\* only after a terminal token or the last pass, with a log-probability
SamplerBounded ==
  /\ steps <= MAX_NEW_TOKENS
  /\ samp_pc \in {"loop", "returned"} =>
       /\ Len(generated) = Len(prompt_ids) + steps
       /\ Len(logprobs) = steps
       /\ \A k \in 1..(Len(Appended) - 1) : ~IsTerminal(Appended[k])
  /\ samp_pc = "returned" =>
       /\ logprobs # <<>>
       /\ steps = MAX_NEW_TOKENS \/ IsTerminal(generated[Len(generated)])

\* C12: sample_sequence always terminates: it makes at most MAX_NEW_TOKENS
\* passes, appends exactly one token and one log-probability per pass,
\* appends nothing after a token that decodes to ".", "!" or "?", and
\* returns a list of log-probabilities that is never empty.
C12_SamplerTerminates == []SamplerBounded /\ <>(samp_pc = "returned")

\* C12 witness: the sampler returned after its second pass, which drew "."
C12_Witness ==
  /\ samp_pc = "returned"
  /\ steps = 2
  /\ steps < MAX_NEW_TOKENS
  /\ TokenText[generated[Len(generated)]] = <<".">>
  /\ Len(logprobs) = 2


\* the token begins a new word: its text starts with the word-boundary
\* space and has something after it
BeginsWord(tok) ==
  StartsWith(TokenText[tok], <<" ">>) /\ Len(Strip(TokenText[tok])) > 0

\* the first letter of the word the token begins, in lower case
FirstLetter(tok) == LowerStr(<<Strip(TokenText[tok])[1]>>)

\* C13: in every sample of sample_sequence, every generated token that
\* begins a new word has a first letter equal, case-insensitively, to the
\* required constraint letter.
C13_LetterConstraintHolds ==
  \A k \in 1..Len(Appended) :
    BeginsWord(Appended[k]) => FirstLetter(Appended[k]) = LowerStr(<<letter_constraint>>)


\* the last pass left its top-k order and the size of its nucleus
StepTaken == steps > 0 /\ samp_pc \in {"loop", "returned"}

\* the tokens that survived the truncation of the last pass
Surviving == {step_order[n] : n \in 1..step_kept}

\* C14 as claimed: the surviving tokens are a prefix of the descending
\* order whose cumulative probability is at least TOP_P, and without its
\* lowest-ranked token the cumulative probability is below TOP_P.
C14_SmallestPrefixReachingTopP ==
  StepTaken =>
    /\ step_kept \in 1..Len(step_order)
    /\ IsTopOrder(step_logits, step_order)
    /\ AtLeastTopP(step_logits, step_order, step_kept)
    /\ ~AtLeastTopP(step_logits, step_order, step_kept - 1)

\* C14: the surviving tokens are the shortest prefix of the descending
\* order whose cumulative probability is strictly above TOP_P: without its
\* lowest-ranked token the cumulative probability is at most TOP_P.
C14_SmallestPrefixExceedingTopP ==
  StepTaken =>
    /\ step_kept \in 1..Len(step_order)
    /\ IsTopOrder(step_logits, step_order)
    /\ ExceedsTopP(step_logits, step_order, step_kept)
    /\ \A n \in 0..(step_kept - 1) : ~ExceedsTopP(step_logits, step_order, n)

\* C14 witness: a pass whose first-ranked token has cumulative probability
\* exactly TOP_P, so that the nucleus keeps the second-ranked token too
C14_Witness ==
  /\ StepTaken
  /\ step_kept = 2
  /\ AtLeastTopP(step_logits, step_order, 1)
  /\ ~ExceedsTopP(step_logits, step_order, 1)


\* the post-filter logits the last pass worked on
StepInput ==
  modify_logits_for_letter_constraint(
    RawLogits(lm, SubSeq(generated, 1, Len(generated) - 1)), letter_constraint)

\* the tokens whose post-filter logit is above the one of tok
Above(logits, tok) == {u \in VocabIds : WtLess(logits[tok], logits[u])}

\* C15: at every sampling step, after the admissibility filter, top-k and
\* top-p, the surviving set is non-empty, has at most TOP_K members and
\* holds only tokens among the TOP_K highest post-filter logits; a pass
\* that is due can always be made, whatever the constraint letter.
C15_SurvivorsNonEmptyTopK ==
  /\ StepTaken =>
       /\ step_logits = StepInput
       /\ Surviving # {}
       /\ Cardinality(Surviving) = step_kept
       /\ Cardinality(Surviving) <= TOP_K
       /\ \A tok \in Surviving : Cardinality(Above(step_logits, tok)) < TOP_K
       /\ generated[Len(generated)] \in Surviving
  /\ Sampling => ENABLED SampleStep

\* C15 witness: a pass in which the filter had penalised a token, the
\* token was nevertheless among the TOP_K highest, and top-p cut the
\* TOP_K tokens down to fewer survivors
C15_Witness ==
  /\ StepTaken
  /\ step_kept < Len(step_order)
  /\ Surviving # {}
  /\ \E n \in 1..Len(step_order) :
       Forbidden(TokenText[step_order[n]], letter_constraint)


\* the token appended by the last pass and the probability recorded for it
LastToken == generated[Len(generated)]
LastProb == logprobs[Len(logprobs)]

\* num / den is a probability: above 0, so its logarithm is finite, and at
\* most 1, so its logarithm is not above 0
IsProbability(p) == WtLess(WtZero, p.num) /\ ~WtLess(p.den, p.num)

\* C16: at every sampling step the token is drawn from the surviving
\* logits renormalised to sum to 1; the sampled token is a survivor, and
\* the log-probability recorded for it is the one under that distribution,
\* hence finite and not above 0.
C16_RenormalisedLogProb ==
  /\ StepTaken =>
       /\ LastToken \in Surviving
       /\ LastProb.num = step_logits[LastToken]
       /\ LastProb.den = WtSum(step_logits, step_order, step_kept)
  /\ \A k \in 1..Len(logprobs) : IsProbability(logprobs[k])

\* C16 witness: top-p cut the top-k tokens down to two survivors and the
\* second-ranked one was drawn, with a probability below 1
C16_Witness ==
  /\ StepTaken
  /\ step_kept = 2
  /\ step_kept < Len(step_order)
  /\ LastToken = step_order[2]
  /\ WtLess(LastProb.num, LastProb.den)


\* C17: the text sample_sequence returns is the decoding of exactly the
\* tokens appended during sampling, one per recorded log-probability, so
\* that score_generation counts generated words only.
C17_TextIsContinuation ==
  samp_pc = "returned" =>
    /\ Len(Appended) = Len(logprobs)
    /\ text = decode(Appended)


(***************************************************************************)
(* Properties of the rerankers                                             *)
(***************************************************************************)
\* the positions of the input in the order the sorted list has them
Placements ==
  {pi \in [1..Len(rank_input) -> 1..Len(rank_input)] :
     /\ \A a, b \in 1..Len(rank_input) : a # b => pi[a] # pi[b]
     /\ \A a \in 1..Len(rank_input) : rank_sorted[a] = rank_input[pi[a]]}

\* equal scores stay in the order of the input
KeepsTies(pi) ==
  \A a, b \in 1..Len(rank_input) :
    a < b /\ rank_sorted[a][1] = rank_sorted[b][1] => pi[a] < pi[b]

\* the first candidate of the input whose score no candidate exceeds
EarliestMaximum ==
  CHOOSE m \in 1..Len(rank_input) :
    /\ \A k \in 1..Len(rank_input) : rank_input[k][1] <= rank_input[m][1]
    /\ \A k \in 1..(m - 1) : rank_input[k][1] < rank_input[m][1]

\* C18: the reranker sorts the candidates by descending score and returns
\* the first of the sorted list, which has the maximum score; candidates
\* with equal scores keep their original order, so the one returned is the
\* earliest with the maximum score, and the sorted list is a permutation
\* of the input.
C18_StableDescendingBest ==
  rank_pc = "returned" =>
    /\ Len(rank_sorted) = Len(rank_input)
    /\ \A a, b \in 1..Len(rank_sorted) : a < b => rank_sorted[a][1] >= rank_sorted[b][1]
    /\ \E pi \in Placements : KeepsTies(pi)
    /\ rank_best = rank_sorted[1][2]
    /\ rank_best = rank_input[EarliestMaximum][2]

\* C18 witness: three candidates, the first below the maximum and the other
\* two tied at the maximum with different texts
C18_Witness ==
  /\ rank_pc = "returned"
  /\ Len(rank_input) = 3
  /\ rank_input[1][1] < rank_input[2][1]
  /\ rank_input[2][1] = rank_input[3][1]
  /\ rank_input[2][2] # rank_input[3][2]
  /\ rank_best = rank_input[2][2]


(***************************************************************************)
(* Properties of the capital cloze                                         *)
(***************************************************************************)
\* the masked sentence ask_capital builds for the question at hand
CapitalSentence ==
  <<"S", "t", "o", "l", "i", "c", "a_", " ">>
  \o CapitalSentenceCountry(CleanCountry(CapitalGroup(q_clean)))
  \o <<" ", "j", "e", "s", "t", " ", "<mask>", ".">>

\* the fillers ask_capital retrieved for the sentence, as it would return them
CapitalFillers(sent) ==
  IF variant = "d" THEN Toks(fill_one(adapter, sent, 5))
  ELSE [k \in 1..Len(Candidates(Fill(adapter, sent))) |->
          RemoveBpeMarks(Strip(Candidates(Fill(adapter, sent))[k].token_str))]

\* the score of the whole sentence with the filler in place of the mask
SentencePll(sent, filler) == pll(adapter, ReplaceMask(sent, filler))

\* the capital stage has answered the question at hand
CapitalAnswered == pc = "return" /\ answered_by = "capital"

\* filler is among fillers and no other of them gives the sentence a
\* higher score
BestFiller(sent, fillers, filler) ==
  /\ \E k \in 1..Len(fillers) : fillers[k] = filler
  /\ \E best \in {SentencePll(sent, filler)} :
       \A j \in 1..Len(fillers) :
         ~ScoreGreater(SentencePll(sent, fillers[j]), best)

\* C19: the filler ask_capital returns is the one whose full sentence has
\* the highest pseudo-log-likelihood among the retrieved fillers, not the
\* one with the highest raw fill-mask probability.
C19_CapitalRerankedByPll ==
  CapitalAnswered =>
    \E sent \in {CapitalSentence} :
      \E fillers \in {CapitalFillers(sent)} : BestFiller(sent, fillers, ans)


\* C20: Router.answer_one never returns an empty string, in either router:
\* a stage whose result is empty counts as no match and the chain goes on,
\* ending at worst in the sentinel "nie wiem".
C20_AnswerNeverEmpty == pc = "return" => ans # <<>>

(***************************************************************************)
(* Properties of the score comparisons                                     *)
(***************************************************************************)
\* C21: every score that reaches a comparison is a finite number: an item
\* whose score is nan or infinite is left out before the comparison runs
C21_OnlyFiniteScoresCompared ==
  cmp_pc = "compared" =>
    \A k \in DOMAIN cmp_scores : IsFinite(cmp_scores[k])

(***************************************************************************)
(* Properties of main reading standard input                               *)
(***************************************************************************)
\* the questions among the lines read before the latest one
ReadEarlier == read_questions(SubSeq(io_data, 1, Len(io_data) - 1))

\* the question at the start of every printed line
PrintedQuestions(qs) ==
  /\ Len(io_stdout) = Len(qs)
  /\ \A k \in 1..Len(qs) :
       SubSeq(io_stdout[k], 1, Len(qs[k]) + 1) = qs[k] \o <<"\t">>

\* C22 as claimed: without an input file the program reads one question
\* line at a time and prints its answer before the next line is read, so
\* the answers appear in the order the lines arrive
C22_AnswersLineByLine ==
  /\ io_data # <<>> => Len(io_stdout) >= Len(ReadEarlier)
  /\ pc = "exit" /\ read_questions(io_data) # <<>> =>
       PrintedQuestions(read_questions(io_data))

\* C22: without an input file the program takes in all of standard input up
\* to its end before the first question is answered, prints nothing before
\* every question is answered, and then prints one line per non-blank input
\* line, question, tab and answer, in sorted order of the stripped questions
\* (one empty line when there is no question)
C22_ReadsAllThenPrints ==
  /\ pc # "stdin" => io_stdin = <<>> /\ questions = read_questions(io_data)
  /\ io_stdout # <<>> => pc = "exit"
  /\ pc = "exit" =>
       \E qs \in {sort_questions(read_questions(io_data))} :
         IF qs = <<>> THEN io_stdout = << <<>> >>
         ELSE /\ PrintedQuestions(qs)
              /\ io_stdout = AnswerLines(out)

\* two questions arrived in descending order and were printed in ascending
\* order after the end of input
C22_Witness ==
  /\ pc = "exit"
  /\ Len(io_data) = 2
  /\ Len(io_stdout) = 2
  /\ ~PrintedQuestions(read_questions(io_data))

(***************************************************************************)
(* Properties of score_candidate                                           *)
(***************************************************************************)
\* the text score_candidate looks at
CandTxt == Strip(cand_text)

\* mark occurs in CandTxt at one of the (1-based) positions from first on
OccursFrom(mark, first) ==
  \E k \in first..(Len(CandTxt) - Len(mark) + 1) :
    SubSeq(CandTxt, k, k + Len(mark) - 1) = mark

\* C26 as claimed: the role-leakage penalty is applied exactly when 'USER:'
\* or 'BOT:' occurs after the first 5 characters of the candidate; a marker
\* within the first 5 characters alone does not trigger it
C26_PenaltyOnlyAfterFirstFive ==
  cand_pc = "scored" =>
    (cand_parts.role # 0 <=> OccursFrom(USER_MARK, 6) \/ OccursFrom(BOT_MARK, 6))

\* C26: the role-leakage penalty of -0.5 is applied exactly when 'USER:'
\* occurs anywhere in the stripped candidate or 'BOT:' occurs after its
\* first 5 characters, and it is part of the score returned
C26_PenaltyUserAnywhereBotAfterFive ==
  cand_pc = "scored" =>
    /\ cand_parts.role = (IF OccursFrom(USER_MARK, 1) \/ OccursFrom(BOT_MARK, 6)
                          THEN -500 ELSE 0)
    /\ cand_score.num =
         (cand_parts.len + cand_parts.end + cand_parts.role) * cand_score.den
         + 600 * cand_parts.rep.num * cand_parts.jac.den
         + 600 * cand_parts.jac.num * cand_parts.rep.den

\* a candidate that starts with 'USER:' and has no marker later was penalised
C26_Witness ==
  /\ cand_pc = "scored"
  /\ StartsWith(CandTxt, USER_MARK)
  /\ ~OccursFrom(USER_MARK, 6) /\ ~OccursFrom(BOT_MARK, 6)
  /\ cand_parts.role = -500

(***************************************************************************)
(* Properties of the chat loop                                             *)
(***************************************************************************)
\* the entries the prompt is built from: the latest MAX_TURNS_IN_PROMPT
InPrompt == Min(Len(history), MAX_TURNS_IN_PROMPT)

\* the preamble, the few-shot example, the latest entries in their order,
\* then the line 'BOT:'
WindowedPrompt ==
  JoinLines(<<SYSTEM_PREAMBLE, EXAMPLE_FEW_SHOT>>
            \o [k \in 1..InPrompt |-> PromptLine(history[Len(history) - InPrompt + k])]
            \o << <<"B", "O", "T", ":">> >>)

\* user and bot entries alternate; the reply of a turn is missing exactly
\* while the turn is being generated and reranked
TurnsAlternate ==
  /\ \A k \in 1..Len(history) :
       history[k][1] = (IF k % 2 = 1 THEN "user" ELSE "bot")
  /\ chat_pc \in {"input", "ended"} => Len(history) % 2 = 0
  /\ chat_pc \in {"prompt", "generated", "chosen"} =>
       /\ Len(history) % 2 = 1
       /\ history[Len(history)] = <<"user", chat_user>>
  /\ chat_pc \in {"generated", "chosen"} => chat_prompt = WindowedPrompt

\* one step leaves the history alone, appends the utterance read, or
\* appends the reply chosen by the reranker (the fallback for an empty one)
AppendsOnly ==
  \/ history' = history
  \/ /\ chat_pc = "input"
     /\ history' = Append(history, <<"user", chat_user'>>)
  \/ /\ chat_pc = "chosen"
     /\ history' = Append(history, <<"bot", IF chat_best = <<>> THEN FALLBACK ELSE chat_best>>)

\* C23: the history is append-only: a turn appends the user's utterance and,
\* once generation and reranking are done, the chosen reply; no entry is
\* changed or removed; build_prompt takes the latest MAX_TURNS_IN_PROMPT
\* entries in their order and ends with the line 'BOT:'
C23_HistoryAppendOnly == []TurnsAlternate /\ [][AppendsOnly]_vars

\* a prompt was built from a history longer than the window, with an entry
\* that build_prompt had to clean
C23_Witness ==
  /\ chat_pc = "generated"
  /\ Len(history) > MAX_TURNS_IN_PROMPT
  /\ \E k \in 1..InPrompt :
       CleanText(history[Len(history) - InPrompt + k][2])
         # history[Len(history) - InPrompt + k][2]
  /\ history[2][2] = FALLBACK

(***************************************************************************)
(* Properties of the yes/no stage                                          *)
(***************************************************************************)
\* the pll of the question followed by the given word and a full stop
PllWith(word) == pll(adapter, Strip(q_clean) \o <<" ">> \o word \o <<".">>)

\* the yes/no stage has just answered the current question
YesNoAnswered == pc = "return" /\ answered_by = "yes_no"

\* how the two scores stand: the sign of s_yes - s_no
YesMinusNo(s_yes, s_no) == s_yes.num * s_no.den - s_no.num * s_yes.den

\* C24: the yes/no stage answers 'Tak' only when the pll of the question
\* with ' Tak.' is strictly greater than the pll of the question with
\* ' Nie.'; in every other case, a tie included, it answers 'Nie'
C24_TakOnlyWhenStrictlyGreater ==
  YesNoAnswered =>
    \E s_yes \in {PllWith(<<"T", "a", "k">>)} :
      \E s_no \in {PllWith(<<"N", "i", "e">>)} :
        /\ s_yes.den > 0 /\ s_no.den > 0
        /\ ans = (IF YesMinusNo(s_yes, s_no) > 0
                  THEN <<"T", "a", "k">> ELSE <<"N", "i", "e">>)

\* the two scores were equal and the answer was 'Nie'
C24_Witness ==
  /\ YesNoAnswered
  /\ YesMinusNo(PllWith(<<"T", "a", "k">>), PllWith(<<"N", "i", "e">>)) = 0
  /\ ans = <<"N", "i", "e">>

(***************************************************************************)
(* Properties of greedy_span                                               *)
(***************************************************************************)
\* the positions of the predictions whose cleaned text is not empty
Fillers(preds) == {k \in 1..Len(preds) : clean_tok(preds[k].token_str) # <<>>}

\* the cleaned text of the best-ranked non-empty prediction
TopFiller(preds) ==
  clean_tok(preds[CHOOSE k \in Fillers(preds) : \A j \in Fillers(preds) : k <= j].token_str)

\* the prefix followed by the first n accepted tokens
ContextAfter(n) ==
  IF n = 0 THEN span_prefix
  ELSE span_prefix \o <<" ">> \o JoinSpace(SubSeq(answer_tokens, 1, n))

\* C25: greedy_span makes at most max_tokens passes; each pass accepts the
\* best-ranked non-empty filler unless there is none or it is one of
\* ',', '.', ';', '!', '?', 'i', which ends the loop without accepting it;
\* so at most max_tokens tokens are accepted, none is a stop token, and the
\* template of every pass contains all tokens accepted before it
C25_GreedySpanStops ==
  /\ span_rounds <= span_max_tokens
  /\ Len(span_templates) = span_rounds /\ Len(span_preds) = span_rounds
  /\ Len(answer_tokens) = (IF span_pc = "loop" \/ span_pc = "idle" THEN span_rounds
                           ELSE IF span_pc = "break" THEN span_rounds - 1
                           ELSE Len(answer_tokens))
  /\ Len(answer_tokens) <= span_rounds
  /\ \A k \in 1..Len(answer_tokens) :
       /\ answer_tokens[k] \notin {<<",">>, <<".">>, <<";">>, <<"!">>, <<"?">>, <<"i">>}
       /\ Fillers(span_preds[k]) # {}
       /\ answer_tokens[k] = TopFiller(span_preds[k])
  /\ \A k \in 1..Len(span_templates) :
       span_templates[k] = ContextAfter(k - 1) \o <<" ", "<mask>">> \o span_terminator
  /\ Len(answer_tokens) < span_rounds =>
       \/ Fillers(span_preds[span_rounds]) = {}
       \/ TopFiller(span_preds[span_rounds])
            \in {<<",">>, <<".">>, <<";">>, <<"!">>, <<"?">>, <<"i">>}
  /\ span_pc = "returned" =>
       /\ span_out = JoinSpace(answer_tokens)
       /\ Len(answer_tokens) < span_rounds \/ span_rounds = span_max_tokens

\* two tokens were accepted and the third pass met the conjunction 'i'
C25_Witness ==
  /\ span_pc = "returned"
  /\ span_max_tokens = 3
  /\ Len(answer_tokens) = 2
  /\ span_rounds = 3
  /\ Fillers(span_preds[3]) # {}
  /\ TopFiller(span_preds[3]) = <<"i">>

(***************************************************************************)
(* Properties of modify_logits_for_letter_constraint                       *)
(***************************************************************************)
\* the token begins a word whose first letter is not the required one,
\* whatever the case of either
BeginsOtherWord(tok) ==
  BeginsWord(tok) /\ FirstLetter(tok) # LowerStr(<<flt_letter>>)

\* C27: the filter lowers by the fixed penalty of 20 exactly the logits of
\* the tokens whose text starts with a space and whose first character
\* after the white space differs, case-insensitively, from the constraint
\* letter; every other logit is returned as it was, so which logits change
\* depends on the token and the letter only
C27_FilterChangesOnlyForbidden ==
  flt_pc = "returned" =>
    \A tok \in VocabIds :
      flt_out[tok] = flt_logits[tok] - (IF BeginsOtherWord(tok) THEN 20 ELSE 0)

\* with the letter 'm': ' Kot' was lowered, ' Ma', ' ', '.' and 'ry' were not
C27_Witness ==
  /\ flt_pc = "returned"
  /\ flt_letter = "m"
  /\ flt_out[2] = flt_logits[2] - 20
  /\ TokenText[2] = <<" ", "K", "o", "t">>
  /\ \A tok \in VocabIds \ {2} : flt_out[tok] = flt_logits[tok]
  /\ TokenText[6] = <<" ", "M", "a">>
  /\ flt_logits[6] = 30

(***************************************************************************)
(* Properties of the text try_arithmetic returns                           *)
(***************************************************************************)
AllDigits(s) == s # <<>> /\ \A k \in 1..Len(s) : IsDigit(s[k])

\* digits, optionally a comma followed by digits
IsUnsignedNumeral(s) ==
  \/ AllDigits(s)
  \/ \E k \in 2..(Len(s) - 1) :
       /\ s[k] = ","
       /\ AllDigits(SubSeq(s, 1, k - 1))
       /\ AllDigits(SubSeq(s, k + 1, Len(s)))

\* an optional minus sign and an unsigned numeral
IsDecimalNumeral(s) ==
  IF s # <<>> /\ s[1] = "-" THEN IsUnsignedNumeral(Tail(s)) ELSE IsUnsignedNumeral(s)

\* C28: every answer of try_arithmetic other than no match is a decimal
\* numeral: an optional minus sign, digits, and optionally a comma followed
\* by digits
C28_AnswerIsDecimalNumeral ==
  arith_pc = "returned" /\ arith_out # None => IsDecimalNumeral(arith_out)


(***************************************************************************)
(* C29: the cloze templates of answer_general are shadowed by its lexicon  *)
(***************************************************************************)
\* the question answer_general was given, as it searches it
GeneralText == normalize_whitespace(q_clean)

\* the indices of the cloze templates whose pattern is found in the question
TemplatesFound ==
  {k \in 1..Len(templates) : PatternSearch(templates[k].pat, GeneralText)}

\* answer_one of d.py has been through answer_general for the question
GeneralDone ==
  /\ variant = "d"
  /\ pc = "return"
  /\ \E k \in 1..Len(stages) : stages[k].stage = "lexicon"

\* the model calls made inside answer_general
GeneralCalls ==
  {k \in 1..Len(calls) : calls[k].stage \in {"lexicon", "template", "generic"}}

\* the body of the template loop ran: a call was made for a template, or
\* answer_general returned from inside the loop
TemplateBranchRan ==
  \/ \E k \in 1..Len(calls) : calls[k].stage = "template"
  \/ \E k \in 1..Len(stages) :
       /\ stages[k].stage = "template"
       /\ stages[k].result # None \/ (k = Len(stages) /\ pc = "return")

RECURSIVE SumOf(_, _)
\* the sum of f[k] over k = 1..n
SumOf(f, n) == IF n = 0 THEN 0 ELSE f[n] + SumOf(f, n - 1)

PosScores == [k \in 1..Len(template_scores) |-> template_scores[k].lp_pos]

NegScores == [k \in 1..Len(template_scores) |-> template_scores[k].lp_neg]

Margins == [k \in 1..Len(template_scores) |-> template_scores[k].margin]

\* the k-th template was scored by the (2k-1)-th and the 2k-th call, with its
\* positive and its negative continuation on one prefix
ScoredOnce(k) ==
  /\ template_scores[k].name = TEMPLATES[k]
  /\ pred_calls[2 * k - 1] =
       <<Template(k, pred_opinia).prefix, Template(k, pred_opinia).pos_cont>>
  /\ pred_calls[2 * k] =
       <<Template(k, pred_opinia).prefix, Template(k, pred_opinia).neg_cont>>

\* C30: predict(opinia) scores every template of TEMPLATES exactly once,
\* with its positive and its negative continuation on the same prefix; it
\* returns "pos" if and only if the total of the positive log-probabilities
\* is strictly greater than the total of the negative ones, "neg" on a tie;
\* the margin reported is the sum of the margins of the templates.
C30_PredictComparesTotals ==
  /\ Len(template_scores) = pred_t
  /\ Len(pred_calls) = 2 * pred_t
  /\ \A k \in 1..pred_t : ScoredOnce(k)
  /\ pred_pc = "returned" =>
       /\ pred_t = Len(TEMPLATES)
       /\ pred_label \in {"pos", "neg"}
       /\ pred_label = "pos" <=>
            SumOf(PosScores, pred_t) > SumOf(NegScores, pred_t)
       /\ pred_sc.margin = SumOf(Margins, pred_t)

\* predict returned "neg" for totals that are equal
C30_Witness ==
  /\ pred_pc = "returned"
  /\ SumOf(PosScores, pred_t) = SumOf(NegScores, pred_t)
  /\ pred_label = "neg"
  /\ \E k \in 1..pred_t : template_scores[k].margin # 0

====
